---- MODULE Spec2Model ----
(***************************************************************************)
(* Account pool of the Antigravity proxy (AccountManager): health-scored   *)
(* accounts, rate-limit cooldowns, the affinity lock and the sticky        *)
(* wait-versus-switch selection.                                           *)
(*                                                                         *)
(* Time is the value of Date.now() in milliseconds.  The clock advances in *)
(* steps of Tick, so every timestamp is a multiple of Tick.  Each method   *)
(* of the manager is synchronous and is one action taken at one reading    *)
(* of the clock.  Accounts are identified by their email, which is unique  *)
(* in the pool.  The fields lastUsed, lastFailureAt, invalidReason and     *)
(* invalidAt are written but never read by the manager and are not         *)
(* represented.                                                            *)
(*                                                                         *)
(* The HTTP server (server.js) is the second part: the initialization      *)
(* latch, the handlers of POST /v1/messages, POST /v1/chat/completions and *)
(* GET /health, the error classifier and the responses they send.  A       *)
(* handler runs without interruption from one await to the next, so each   *)
(* action is one such segment of one request.  The provider the handlers   *)
(* call (account selection, upstream dispatch, outcome recording) is not   *)
(* part of the sources at hand and follows the request pipeline of the     *)
(* specification.                                                          *)
(***************************************************************************)
EXTENDS Integers, Sequences, FiniteSets, TLC

\* ------------------------------------------------------------------------
\* Program constants (constants.js, values as documented in the manager)
\* ------------------------------------------------------------------------
SHORT_WAIT_THRESHOLD_MS == 10000

MAX_WAIT_BEFORE_ERROR_MS == 60000

TIME_WINDOW_LOCK_MS == 60000

DEFAULT_COOLDOWN_MS == 60000

\* ------------------------------------------------------------------------
\* Bounds of the model
\* ------------------------------------------------------------------------
\* number of instants at which the clock is read
MaxInstants == 3

\* cap on the requests counted in the pool (all successCount and errorCount together)
MaxCount == 2

Tick == SHORT_WAIT_THRESHOLD_MS

StartTime == 2 * Tick

\* the instants, in ticks after the start: one short wait later, one lock
\* window later, one tick past the lock window, ...
InstantOffsets == <<0, 1, 6, 7, 13, 14>>

Instants == {StartTime + InstantOffsets[k] * Tick : k \in 1..MaxInstants}

\* JS null for a timestamp
Null == -1

\* JS null for an account or an email
NoAccount == ""

\* emails of the accounts a persisted document may hold, in document order
Emails == <<"a", "b">>

DefaultEmail == "default@antigravity"

\* JS truthiness of a nullable number
Truthy(t) == t # Null /\ t # 0

Max(x, y) == IF x >= y THEN x ELSE y

Min(x, y) == IF x <= y THEN x ELSE y

VARIABLES
    accounts,         \* #accounts: sequence of account records
    currentIndex,     \* #currentIndex (0-based)
    settings,         \* #settings.cooldownDurationMs (0 when absent)
    initialized,      \* #initialized
    lastUsedAccount,  \* #lastUsedAccount: email of the affinity anchor
    lastUsedTime,     \* #lastUsedTime: when the anchor was stamped
    now,              \* Date.now()
    ret,              \* result of pickStickyAccount when it was the last operation
    rule,             \* return statement pickStickyAccount left by, "none" after any other operation
    runAccount,       \* history: account returned by the last selection, cleared by a failure recording
    runAt,            \* history: time of that selection
    waitFor,          \* history: account the last selection asked the caller to wait for
    waitUntil,        \* history: time at which that wait is over
    markedUntil,      \* history: per account, the reset time of the cooldown it was last marked with, while in force
    outcomeCalls      \* history: per account, the recordSuccess calls and the recordFailure and markRateLimited calls made for it

VARIABLES
    isInitialized,    \* server.js isInitialized
    initPromise,      \* server.js initPromise: 0 for null, else the number of the attempt it belongs to
    initTries,        \* history: the outcome of every accountManager.initialize() call, in order
    reqs              \* the requests: position in the handler, response, history

VARIABLES
    call,             \* the function applied last and its arguments
    result,           \* what it returned
    saves,            \* the saveToDisk() calls of the pool, in call order
    disk,             \* history: the writes of the accounts document, as performed
    persistChain,     \* the jobs chained on FlowMonitor.persistChain, in call order
    flowLog,          \* history: the records appended to the flow log, as performed
    config,           \* cachedConfig of the config service
    flows,            \* number of flows FlowMonitor holds
    backups,          \* number of backups made
    adminRes,         \* the request handled last by an administrative route, and its response
    tokenCache,       \* #tokenCache: per email, the cached token and its extractedAt
    tokenLog          \* the getTokenForAccount and clearTokenCache calls, in call order, with their progress

poolVars ==
    <<accounts, currentIndex, settings, initialized, lastUsedAccount, lastUsedTime,
      now, ret, rule, runAccount, runAt, waitFor, waitUntil, markedUntil, outcomeCalls>>

serverVars == <<isInitialized, initPromise, initTries, reqs>>

\* the variables outside the account pool and the request handlers
fileVars == <<saves, disk, persistChain, flowLog>>

adminVars == <<config, flows, backups, adminRes>>

tokenVars == <<tokenCache, tokenLog>>

auxVars == <<call, result, fileVars, adminVars, tokenVars>>

vars == <<accounts, currentIndex, settings, initialized, lastUsedAccount,
          lastUsedTime, now, ret, rule, runAccount, runAt, waitFor, waitUntil,
          markedUntil, outcomeCalls, isInitialized, initPromise, initTries, reqs,
          call, result, saves, disk, persistChain, flowLog,
          config, flows, backups, adminRes, tokenCache, tokenLog>>

\* ------------------------------------------------------------------------
\* Pure helpers
\* ------------------------------------------------------------------------
hydrateStats(stats) ==
    [successCount |-> stats.successCount,
     errorCount |-> stats.errorCount,
     lastSuccessAt |-> IF Truthy(stats.lastSuccessAt) THEN stats.lastSuccessAt ELSE Null]

FreshStats == [successCount |-> 0, errorCount |-> 0, lastSuccessAt |-> Null]

\* Math.round(num / den) for den > 0, without the limits
clampScoreRoundOnly(num, den) == (2 * num + den) \div (2 * den)

\* Math.round(Math.max(-100, Math.min(120, num / den))) for den > 0
clampScore(num, den) ==
    LET clamped == Max(-100 * den, Min(120 * den, num))
    IN  (2 * clamped + den) \div (2 * den)

\* #computeHealthScore at clock reading t; the score is the fraction
\* num / (total * DEFAULT_COOLDOWN_MS) before clamping and rounding
computeHealthScore(acc, t) ==
    LET stateWeight == IF acc.isInvalid THEN -50 ELSE IF acc.isRateLimited THEN -20 ELSE 30
        s == acc.stats.successCount
        e == acc.stats.errorCount
        total == Max(s + e, 1)
        remainingMs == IF Truthy(acc.rateLimitResetTime) THEN acc.rateLimitResetTime - t ELSE 0
        cooldownNum == IF acc.isRateLimited
                         THEN Max(0, DEFAULT_COOLDOWN_MS - Min(DEFAULT_COOLDOWN_MS, remainingMs))
                         ELSE DEFAULT_COOLDOWN_MS
        num == stateWeight * total * DEFAULT_COOLDOWN_MS
               + 30 * (total - s) * DEFAULT_COOLDOWN_MS
               + 20 * (total - e) * DEFAULT_COOLDOWN_MS
               + 10 * cooldownNum * total
    IN  clampScore(num, total * DEFAULT_COOLDOWN_MS)

rescore(acc, t) == [acc EXCEPT !.healthScore = computeHealthScore(acc, t)]

\* #updateRecommendations
updateRecommendations(accts) ==
    LET valid == {i \in DOMAIN accts : ~accts[i].isInvalid}
        isTop(i) == \A j \in valid : accts[j].healthScore <= accts[i].healthScore
    IN  [i \in DOMAIN accts |->
            [accts[i] EXCEPT !.recommended =
                i \in valid /\ isTop(i) /\ accts[i].healthScore > 0]]

isAvailable(acc) == ~acc.isRateLimited /\ ~acc.isInvalid

\* getAvailableAccounts, as the set of their positions
getAvailableAccounts(accts) == {i \in DOMAIN accts : isAvailable(accts[i])}

isAllRateLimited(accts) ==
    Len(accts) # 0 /\ \A i \in DOMAIN accts : accts[i].isRateLimited

\* position of the first account with this email, 0 when there is none
findAccount(accts, email) ==
    IF \E i \in DOMAIN accts : accts[i].email = email
      THEN CHOOSE i \in DOMAIN accts :
              /\ accts[i].email = email
              /\ \A j \in DOMAIN accts : accts[j].email = email => i <= j
      ELSE 0

isExpired(acc, t) ==
    acc.isRateLimited /\ Truthy(acc.rateLimitResetTime) /\ acc.rateLimitResetTime <= t

\* clearExpiredLimits: the accounts it leaves
clearExpiredLimits(accts, t) ==
    LET swept == [i \in DOMAIN accts |->
                    IF isExpired(accts[i], t)
                      THEN rescore([accts[i] EXCEPT !.isRateLimited = FALSE,
                                                    !.rateLimitResetTime = Null], t)
                      ELSE accts[i]]
    IN  IF \E i \in DOMAIN accts : isExpired(accts[i], t)
          THEN updateRecommendations(swept)
          ELSE accts

\* the index clamp of getCurrentStickyAccount and shouldWaitForCurrentAccount
clampIndex(idx, n) == IF idx >= n THEN 0 ELSE idx

\* accounts[idx] of a 0-based index; FALSE stands for undefined
hasAccountAt(accts, idx) == idx >= 0 /\ idx < Len(accts)

\* pickNext on a pool already swept: position (1-based) of the head of the
\* stable sort by (healthScore desc, lastSuccessAt desc), 0 when none is available
lastSuccessKey(acc) == IF Truthy(acc.stats.lastSuccessAt) THEN acc.stats.lastSuccessAt ELSE 0

\* the order of pickNext without its second key
sortsBeforeScoreOnly(accts, i, j) ==
    \/ accts[i].healthScore > accts[j].healthScore
    \/ /\ accts[i].healthScore = accts[j].healthScore
       /\ i < j

sortsBefore(accts, i, j) ==
    \/ accts[i].healthScore > accts[j].healthScore
    \/ /\ accts[i].healthScore = accts[j].healthScore
       /\ lastSuccessKey(accts[i]) > lastSuccessKey(accts[j])
    \/ /\ accts[i].healthScore = accts[j].healthScore
       /\ lastSuccessKey(accts[i]) = lastSuccessKey(accts[j])
       /\ i < j

\* pickNext that leaves rate-limited accounts in the candidates
pickNextAnyValid(accts) ==
    LET candidates == {i \in DOMAIN accts : ~accts[i].isInvalid}
    IN  IF candidates = {} THEN 0
        ELSE CHOOSE i \in candidates : \A j \in candidates \ {i} : sortsBefore(accts, i, j)

pickNext(accts) ==
    LET available == getAvailableAccounts(accts)
    IN  IF available = {} THEN 0
        ELSE CHOOSE i \in available : \A j \in available \ {i} : sortsBefore(accts, i, j)

\* shouldWaitForCurrentAccount with one of its decisions changed:
\* "neverSwitch" waits out a medium cooldown although another account is available,
\* "errorWhenAlone" does not wait for a medium cooldown when no account is available,
\* "unbounded" waits for a cooldown longer than MAX_WAIT_BEFORE_ERROR_MS
shouldWaitVariant(accts, idx, t, variant) ==
    LET none == [shouldWait |-> FALSE, waitMs |-> 0, account |-> NoAccount, shouldSwitch |-> FALSE]
    IN  IF Len(accts) = 0 \/ ~hasAccountAt(accts, idx) THEN none
        ELSE LET account == accts[idx + 1]
                 waitMs == account.rateLimitResetTime - t
                 idle == [shouldWait |-> FALSE, waitMs |-> 0, account |-> account.email, shouldSwitch |-> FALSE]
                 wait == [idle EXCEPT !.shouldWait = TRUE, !.waitMs = waitMs]
                 switch == [idle EXCEPT !.waitMs = waitMs, !.shouldSwitch = TRUE]
                 giveUp == [idle EXCEPT !.waitMs = waitMs]
             IN  IF account.isInvalid THEN none
                 ELSE IF ~(account.isRateLimited /\ Truthy(account.rateLimitResetTime)) THEN idle
                 ELSE IF waitMs <= 0 THEN idle
                 ELSE IF waitMs <= SHORT_WAIT_THRESHOLD_MS THEN wait
                 ELSE IF waitMs <= MAX_WAIT_BEFORE_ERROR_MS
                   THEN IF getAvailableAccounts(accts) # {}
                          THEN (IF variant = "neverSwitch" THEN wait ELSE switch)
                          ELSE (IF variant = "errorWhenAlone" THEN giveUp ELSE wait)
                 ELSE IF variant = "unbounded" THEN wait ELSE giveUp

shouldWaitNeverSwitch(accts, idx, t) == shouldWaitVariant(accts, idx, t, "neverSwitch")

shouldWaitErrorWhenAlone(accts, idx, t) == shouldWaitVariant(accts, idx, t, "errorWhenAlone")

shouldWaitUnbounded(accts, idx, t) == shouldWaitVariant(accts, idx, t, "unbounded")

\* shouldWaitForCurrentAccount on a pool whose index is already clamped
shouldWaitForCurrentAccount(accts, idx, t) ==
    LET none == [shouldWait |-> FALSE, waitMs |-> 0, account |-> NoAccount, shouldSwitch |-> FALSE]
    IN  IF Len(accts) = 0 THEN none
        ELSE IF ~hasAccountAt(accts, idx) THEN none
        ELSE LET account == accts[idx + 1]
                 waitMs == account.rateLimitResetTime - t
                 idle == [shouldWait |-> FALSE, waitMs |-> 0, account |-> account.email, shouldSwitch |-> FALSE]
             IN  IF account.isInvalid THEN none
                 ELSE IF account.isRateLimited /\ Truthy(account.rateLimitResetTime)
                   THEN IF waitMs <= 0 THEN idle
                        ELSE IF waitMs <= SHORT_WAIT_THRESHOLD_MS
                          THEN [idle EXCEPT !.shouldWait = TRUE, !.waitMs = waitMs]
                        ELSE IF waitMs <= MAX_WAIT_BEFORE_ERROR_MS
                          THEN IF getAvailableAccounts(accts) # {}
                                 THEN [idle EXCEPT !.waitMs = waitMs, !.shouldSwitch = TRUE]
                                 ELSE [idle EXCEPT !.shouldWait = TRUE, !.waitMs = waitMs]
                        ELSE [idle EXCEPT !.waitMs = waitMs]
                 ELSE idle

\* pickNext on the swept pool: the pick moves the index
\* pickNext that returns the picked account and leaves the index where it was
pickNextSweptKeepsIndex(swept, p, idx) ==
    [accounts |-> swept,
     currentIndex |-> idx,
     account |-> IF p = 0 THEN NoAccount ELSE swept[p].email]

pickNextSwept(swept, p, idx) ==
    [accounts |-> swept,
     currentIndex |-> IF p = 0 THEN idx ELSE p - 1,
     account |-> IF p = 0 THEN NoAccount ELSE swept[p].email]

\* pickNext as called by pickStickyAccount: sweep, pick, move the index
pickNextStep(accts, idx, t) ==
    pickNextSwept(clearExpiredLimits(accts, t), pickNext(clearExpiredLimits(accts, t)), idx)

\* getCurrentStickyAccount on the swept pool: clamp, return the current
\* account if available
stickyOfSwept(swept, idx) ==
    LET clamped == IF Len(swept) = 0 THEN idx ELSE clampIndex(idx, Len(swept))
    IN  [accounts |-> swept,
         currentIndex |-> clamped,
         account |-> IF hasAccountAt(swept, clamped) /\ isAvailable(swept[clamped + 1])
                       THEN swept[clamped + 1].email
                       ELSE NoAccount]

\* getCurrentStickyAccount: sweep, clamp, return the current account if available
getCurrentStickyAccount(accts, idx, t) ==
    stickyOfSwept(clearExpiredLimits(accts, t), idx)

\* the return of pickStickyAccount through pickNext: the anchor is stamped
\* when an account was picked
viaNext(next, anchor, anchorTime, t, name) ==
    [accounts |-> next.accounts,
     currentIndex |-> next.currentIndex,
     lastUsedAccount |-> IF next.account # NoAccount THEN next.account ELSE anchor,
     lastUsedTime |-> IF next.account # NoAccount THEN t ELSE anchorTime,
     ret |-> [account |-> next.account, waitMs |-> 0],
     rule |-> name,
     waitAccount |-> NoAccount]

\* rules 2 to 4 that give up, without trying pickNext, when the current
\* account is neither to be waited for nor to be switched away from
pickByRulesGivingUp(sticky, waitInfo, next, anchor, anchorTime, t) ==
    IF sticky.account # NoAccount
      THEN [accounts |-> sticky.accounts,
            currentIndex |-> sticky.currentIndex,
            lastUsedAccount |-> sticky.account,
            lastUsedTime |-> t,
            ret |-> [account |-> sticky.account, waitMs |-> 0],
            rule |-> "sticky",
            waitAccount |-> NoAccount]
    ELSE IF waitInfo.shouldSwitch THEN viaNext(next, anchor, anchorTime, t, "switch")
    ELSE [accounts |-> sticky.accounts,
          currentIndex |-> sticky.currentIndex,
          lastUsedAccount |-> anchor,
          lastUsedTime |-> anchorTime,
          ret |-> [account |-> NoAccount, waitMs |-> IF waitInfo.shouldWait THEN waitInfo.waitMs ELSE 0],
          rule |-> IF waitInfo.shouldWait THEN "wait" ELSE "next",
          waitAccount |-> IF waitInfo.shouldWait THEN waitInfo.account ELSE NoAccount]

\* rules 2 to 4 of pickStickyAccount, given the results of
\* getCurrentStickyAccount, shouldWaitForCurrentAccount and pickNext
pickByRules(sticky, waitInfo, next, anchor, anchorTime, t) ==
    IF sticky.account # NoAccount
      THEN [accounts |-> sticky.accounts,
            currentIndex |-> sticky.currentIndex,
            lastUsedAccount |-> sticky.account,
            lastUsedTime |-> t,
            ret |-> [account |-> sticky.account, waitMs |-> 0],
            rule |-> "sticky",
            waitAccount |-> NoAccount]
    ELSE IF waitInfo.shouldSwitch THEN viaNext(next, anchor, anchorTime, t, "switch")
    ELSE IF waitInfo.shouldWait
      THEN [accounts |-> sticky.accounts,
            currentIndex |-> sticky.currentIndex,
            lastUsedAccount |-> anchor,
            lastUsedTime |-> anchorTime,
            ret |-> [account |-> NoAccount, waitMs |-> waitInfo.waitMs],
            rule |-> "wait",
            waitAccount |-> waitInfo.account]
    ELSE viaNext(next, anchor, anchorTime, t, "next")

\* the part of pickStickyAccount after getCurrentStickyAccount
pickAfterSticky(sticky, anchor, anchorTime, t) ==
    pickByRules(sticky,
                shouldWaitForCurrentAccount(sticky.accounts, sticky.currentIndex, t),
                pickNextStep(sticky.accounts, sticky.currentIndex, t),
                anchor, anchorTime, t)

\* the part of pickStickyAccount after the time window lock
pickAfterLock(accts, idx, anchor, anchorTime, t) ==
    pickAfterSticky(getCurrentStickyAccount(accts, idx, t), anchor, anchorTime, t)

\* pickStickyAccount without the time window lock
pickStickyNoLock(accts, idx, anchor, anchorTime, t) ==
    pickAfterLock(accts, idx, anchor, anchorTime, t)

\* pickStickyAccount that takes the best-scored account on every call
pickStickyByScore(accts, idx, anchor, anchorTime, t) ==
    viaNext(pickNextStep(accts, idx, t), anchor, anchorTime, t, "next")

\* pickStickyAccount: what it returns and the pool state it leaves
pickStickyOutcome(accts, idx, anchor, anchorTime, t) ==
    LET lockActive == anchor # NoAccount /\ Truthy(anchorTime)
                      /\ t - anchorTime < TIME_WINDOW_LOCK_MS
        k == findAccount(accts, anchor)
        waitMs == accts[k].rateLimitResetTime - t
    IN  IF lockActive /\ k # 0 /\ ~accts[k].isRateLimited /\ ~accts[k].isInvalid
          THEN [accounts |-> accts,
                currentIndex |-> idx,
                lastUsedAccount |-> anchor,
                lastUsedTime |-> t,
                ret |-> [account |-> accts[k].email, waitMs |-> 0],
                rule |-> "lock",
                waitAccount |-> NoAccount]
        ELSE IF /\ lockActive /\ k # 0
                /\ accts[k].isRateLimited /\ Truthy(accts[k].rateLimitResetTime)
                /\ waitMs > 0 /\ waitMs <= SHORT_WAIT_THRESHOLD_MS
          THEN [accounts |-> accts,
                currentIndex |-> idx,
                lastUsedAccount |-> anchor,
                lastUsedTime |-> anchorTime,
                ret |-> [account |-> NoAccount, waitMs |-> waitMs],
                rule |-> "lockWait",
                waitAccount |-> accts[k].email]
        ELSE pickAfterLock(accts, idx, anchor, anchorTime, t)

\* ------------------------------------------------------------------------
\* Persisted documents read by initialize
\* ------------------------------------------------------------------------
\* account records a document may hold: available, invalid, rate-limited with
\* a reset time already passed, rate-limited without a reset time
DocAccount ==
    LET base == [isRateLimited |-> FALSE, rateLimitResetTime |-> Null,
                 isInvalid |-> FALSE, stats |-> FreshStats]
    IN  {base,
         [base EXCEPT !.isInvalid = TRUE],
         [base EXCEPT !.isRateLimited = TRUE, !.rateLimitResetTime = StartTime],
         [base EXCEPT !.isRateLimited = TRUE]}

\* settings.cooldownDurationMs of a document (0 when absent); it is set in the
\* documents of one account
DocSettings(n) == IF n = 1 THEN {0, 7 * Tick} ELSE {0}

Docs ==
    UNION {[accounts : [1..n -> DocAccount], settings : DocSettings(n), activeIndex : -1..n]
             : n \in 0..Len(Emails)}

\* the hydration of one persisted account (initialize)
hydrate(acc, email, t) ==
    rescore([email |-> email,
             isRateLimited |-> acc.isRateLimited,
             rateLimitResetTime |-> IF Truthy(acc.rateLimitResetTime) THEN acc.rateLimitResetTime ELSE Null,
             isInvalid |-> acc.isInvalid,
             stats |-> hydrateStats(acc.stats),
             healthScore |-> 0,
             recommended |-> FALSE], t)

\* #loadDefaultAccount when the database yields a key
defaultAccount(t) ==
    [rescore([email |-> DefaultEmail, isRateLimited |-> FALSE, rateLimitResetTime |-> Null,
              isInvalid |-> FALSE, stats |-> FreshStats, healthScore |-> 0,
              recommended |-> FALSE], t)
       EXCEPT !.recommended = TRUE]

\* ------------------------------------------------------------------------
\* Initial state and actions
\* ------------------------------------------------------------------------
NoResult == [account |-> NoAccount, waitMs |-> 0]

\* ------------------------------------------------------------------------
\* The error classifier (parseError)
\* ------------------------------------------------------------------------
\* An error message is represented by what parseError looks for in it: the
\* substrings it contains and the reset window its text states.
NoMatch == <<>>

\* the reset windows of the messages: none, "quota will reset after 0m10s",
\* "quota will reset after 0m0s"
ResetTexts == {NoMatch, <<0, 0, 10>>, <<0, 0, 0>>}

ErrorMessage(signals, reset) == [signals |-> signals, reset |-> reset]

\* a message without any of the substrings
PlainError == ErrorMessage({}, NoMatch)

\* the messages of the errors the provider throws
UpstreamErrors ==
    {ErrorMessage({"401"}, NoMatch),
     ErrorMessage({"429"}, NoMatch),
     ErrorMessage({"RESOURCE_EXHAUSTED"}, <<0, 0, 10>>),
     ErrorMessage({"RESOURCE_EXHAUSTED"}, <<0, 0, 0>>),
     ErrorMessage({"INVALID_ARGUMENT"}, NoMatch),
     ErrorMessage({"All endpoints failed"}, NoMatch),
     ErrorMessage({"PERMISSION_DENIED"}, NoMatch),
     PlainError}

includes(error, text) == text \in error.signals

\* the substrings parseError looks for
Signals ==
    {"401", "UNAUTHENTICATED", "429", "RESOURCE_EXHAUSTED", "QUOTA_EXHAUSTED",
     "invalid_request_error", "INVALID_ARGUMENT", "All endpoints failed",
     "PERMISSION_DENIED"}

\* The text of a message around its reset window, as the pieces the regular
\* expression of parseError tells apart: a run of digits, the letters h, m
\* and s that follow one, the phrase "quota will reset after ", other words.
\* the texts: nothing or "retried for 30s, ", then nothing, "reset after " or
\* "quota will reset after ", then nothing, "45s", "2m0s" or "1h2m3s"
MessageTexts ==
    LET Lit(word) == [kind |-> word, value |-> 0]
        Num(n) == [kind |-> "num", value |-> n]
        leads == {<<>>, <<Lit("retried for "), Num(30), Lit("s"), Lit(", ")>>}
        phrases == {<<>>, <<Lit("reset after ")>>, <<Lit("quota will reset after ")>>}
        windows == {<<>>,
                    <<Num(45), Lit("s")>>,
                    <<Num(2), Lit("m"), Num(0), Lit("s")>>,
                    <<Num(1), Lit("h"), Num(2), Lit("m"), Num(3), Lit("s")>>}
    IN  {lead \o phrase \o window :
            lead \in leads, phrase \in phrases, window \in windows}

\* the piece at position i is of this kind
isTok(text, i, kind) == IF i > Len(text) THEN FALSE ELSE text[i].kind = kind

\* quota will reset after ((\d+)h)?(\d+)m(\d+)s at position i: groups 2, 3, 4
matchWindowAt(text, i) ==
    IF ~isTok(text, i, "quota will reset after ") THEN NoMatch
    ELSE IF isTok(text, i + 1, "num") /\ isTok(text, i + 2, "h")
            /\ isTok(text, i + 3, "num") /\ isTok(text, i + 4, "m")
            /\ isTok(text, i + 5, "num") /\ isTok(text, i + 6, "s")
      THEN <<text[i + 1].value, text[i + 3].value, text[i + 5].value>>
    ELSE IF isTok(text, i + 1, "num") /\ isTok(text, i + 2, "m")
            /\ isTok(text, i + 3, "num") /\ isTok(text, i + 4, "s")
      THEN <<0, text[i + 1].value, text[i + 3].value>>
    ELSE NoMatch

\* (\d+)s at position i: group 5
matchSecondsAt(text, i) ==
    IF isTok(text, i, "num") /\ isTok(text, i + 1, "s")
      THEN <<0, 0, text[i].value>>
      ELSE NoMatch

\* error.message.match(...) from position i on: the leftmost match of either
\* alternative, as hours, minutes and seconds
RECURSIVE resetMatch(_, _)
resetMatch(text, i) ==
    IF i > Len(text) THEN NoMatch
    ELSE IF matchWindowAt(text, i) # NoMatch THEN matchWindowAt(text, i)
    ELSE IF matchSecondsAt(text, i) # NoMatch THEN matchSecondsAt(text, i)
    ELSE resetMatch(text, i + 1)

Ceil(num, den) == (num + den - 1) \div den

\* getMinWaitTimeMs: the number it returns
RECURSIVE minWait(_, _, _)
minWait(accts, t, i) ==
    IF i > Len(accts) THEN 0
    ELSE LET rest == minWait(accts, t, i + 1)
             wait == accts[i].rateLimitResetTime - t
         IN  IF Truthy(accts[i].rateLimitResetTime) /\ wait > 0
                /\ (rest = 0 \/ wait < rest)
               THEN wait
               ELSE rest

getMinWaitTimeMs(accts, t) ==
    IF ~isAllRateLimited(accts) THEN 0
    ELSE IF minWait(accts, t, 1) = 0 THEN DEFAULT_COOLDOWN_MS
    ELSE minWait(accts, t, 1)

\* the retry value of a rate-limit class error
retryAfterOf(error, accts, t) ==
    IF error.reset # NoMatch
      THEN error.reset[1] * 3600 + error.reset[2] * 60 + error.reset[3]
    ELSE IF isAllRateLimited(accts) THEN Ceil(getMinWaitTimeMs(accts, t), 1000)
    ELSE 60

Classified(type, status, retry) ==
    [errorType |-> type, statusCode |-> status, retryAfterSeconds |-> retry]

\* the rows of parseError with the rate-limit row tested first
parseErrorRateLimitFirst(error, accts, t) ==
    IF includes(error, "429") \/ includes(error, "RESOURCE_EXHAUSTED")
       \/ includes(error, "QUOTA_EXHAUSTED")
      THEN Classified("overloaded_error", 503, retryAfterOf(error, accts, t))
    ELSE IF includes(error, "401") \/ includes(error, "UNAUTHENTICATED")
      THEN Classified("authentication_error", 401, Null)
    ELSE IF includes(error, "invalid_request_error") \/ includes(error, "INVALID_ARGUMENT")
      THEN Classified("invalid_request_error", 400, Null)
    ELSE IF includes(error, "All endpoints failed")
      THEN Classified("api_error", 503, Null)
    ELSE IF includes(error, "PERMISSION_DENIED")
      THEN Classified("permission_error", 403, Null)
    ELSE Classified("api_error", 500, Null)

parseError(error, accts, t) ==
    IF includes(error, "401") \/ includes(error, "UNAUTHENTICATED")
      THEN Classified("authentication_error", 401, Null)
    ELSE IF includes(error, "429") \/ includes(error, "RESOURCE_EXHAUSTED")
            \/ includes(error, "QUOTA_EXHAUSTED")
      THEN Classified("overloaded_error", 503, retryAfterOf(error, accts, t))
    ELSE IF includes(error, "invalid_request_error") \/ includes(error, "INVALID_ARGUMENT")
      THEN Classified("invalid_request_error", 400, Null)
    ELSE IF includes(error, "All endpoints failed")
      THEN Classified("api_error", 503, Null)
    ELSE IF includes(error, "PERMISSION_DENIED")
      THEN Classified("permission_error", 403, Null)
    ELSE Classified("api_error", 500, Null)

\* ------------------------------------------------------------------------
\* Requests and responses of the HTTP server
\* ------------------------------------------------------------------------
\* number of requests the server receives
MaxRequests == 2

\* number of chunks an upstream stream yields at most
MaxChunks == 2

\* number of accountManager.initialize() calls
MaxInitTries == 2

Requests == 1..MaxRequests

\* the type field of the upstream chunks
ChunkTypes == {"message_start", "content_block_delta"}

\* the closed taxonomy of client-visible error types
Taxonomy ==
    {"authentication_error", "overloaded_error", "invalid_request_error",
     "permission_error", "api_error"}

\* what a request asks for: the route, the stream flag of the body, whether
\* body.messages is an array, whether the provider named by the request exists
RequestKinds ==
    {k \in [route : {"messages", "chat", "health"}, stream : BOOLEAN,
             validBody : BOOLEAN, knownProvider : BOOLEAN] :
        /\ k.route = "health" => ~k.stream /\ k.validBody /\ k.knownProvider
        /\ ~k.knownProvider => ~k.stream /\ k.validBody
        /\ ~k.validBody => k.route = "messages" /\ ~k.stream}

NoKind == [route |-> "none", stream |-> FALSE, validBody |-> TRUE, knownProvider |-> TRUE]

\* a request that has not arrived; the response part is the state of res
NewRequest ==
    [pc |-> "new",
     kind |-> NoKind,
     awaits |-> 0,              \* the initialization attempt whose promise it awaits
     account |-> NoAccount,     \* the account the provider selected
     wakeAt |-> 0,              \* end of the wait the selection asked for
     relayed |-> <<>>,          \* history: types of the upstream chunks received
     failure |-> "none",        \* history: the step of the pipeline that failed
     error |-> PlainError,      \* history: the error that step threw
     cachesCleared |-> FALSE,   \* history: clearProjectCache() and clearTokenCache() were called
     refreshes |-> 0,           \* history: number of forceRefresh() calls
     allLimitedOnEntry |-> FALSE, \* history: all accounts were rate-limited when the handler took the request
     resetInvoked |-> FALSE,    \* history: the handler called resetAllRateLimits
     selected |-> FALSE,        \* history: an account selection ran for the request
     status |-> 0,              \* res.statusCode once set
     headersSent |-> FALSE,
     retryAfter |-> Null,       \* the Retry-After header
     body |-> "none",           \* JSON body: "none", "ok", or the shape of its error field
     errorType |-> "none",      \* error.type of the JSON body
     out |-> <<>>,              \* what was written to the event stream
     ended |-> 0,               \* how often the response was ended
     lateWrite |-> FALSE]       \* history: something was written after the end

\* no function has been applied
NoCall == [fn |-> "none"]

\* the emails the token cache may hold an entry for
TokenEmails == {Emails[i] : i \in DOMAIN Emails} \cup {DefaultEmail}

\* #tokenCache.get(email) when the map has no entry
NoEntry == [token |-> 0, extractedAt |-> Null]

\* the configuration after loadConfigFromDisk: DEFAULT_CONFIG with the admin
\* key hydrateConfig generates when none is set
DefaultConfig ==
    [allowLanAccess |-> FALSE, listenHost |-> "127.0.0.1", adminApiKey |-> "secret",
     telemetry |-> FALSE, maxFlowEntries |-> 200]

\* res of an administrative route: status, and the kind of body with the
\* configuration data it carries
Response(req, route, status, kind, data) ==
    [route |-> route, header |-> req.header, query |-> req.query,
     status |-> status, kind |-> kind, data |-> data]

Init ==
    /\ accounts = <<>>
    /\ currentIndex = 0
    /\ settings = 0
    /\ initialized = FALSE
    /\ lastUsedAccount = NoAccount
    /\ lastUsedTime = Null
    /\ now = StartTime
    /\ ret = NoResult
    /\ rule = "none"
    /\ runAccount = NoAccount
    /\ runAt = 0
    /\ waitFor = NoAccount
    /\ waitUntil = 0
    /\ markedUntil = <<>>
    /\ outcomeCalls = <<>>
    /\ isInitialized = FALSE
    /\ initPromise = 0
    /\ initTries = <<>>
    /\ reqs = [r \in Requests |-> NewRequest]
    /\ call = NoCall
    /\ result = NoCall
    /\ saves = <<>>
    /\ disk = <<>>
    /\ persistChain = <<>>
    /\ flowLog = <<>>
    /\ config = DefaultConfig
    /\ flows = 0
    /\ backups = 0
    /\ adminRes = Response([header |-> "", query |-> ""], "none", 0, "none", <<>>)
    /\ tokenCache = [email \in TokenEmails |-> NoEntry]
    /\ tokenLog = <<>>

keepAnchor == UNCHANGED <<lastUsedAccount, lastUsedTime>>

\* any operation other than pickStickyAccount returns no selection
noResult ==
    /\ ret' = NoResult
    /\ rule' = "none"

keepHistory == UNCHANGED <<runAccount, runAt, waitFor, waitUntil>>

\* a failure was recorded: the run of selections is broken, the wait is void
failureRecorded ==
    /\ runAccount' = NoAccount
    /\ runAt' = 0
    /\ waitFor' = NoAccount
    /\ waitUntil' = 0

\* the cooldowns marked on the accounts that are still in force at time t
inForce(marks, t) ==
    [i \in DOMAIN marks |-> IF marks[i] # Null /\ marks[i] > t THEN marks[i] ELSE Null]

\* no outcome has been recorded for any of n accounts
noCalls(n) == [i \in 1..n |-> [successes |-> 0, failures |-> 0]]

\* the calls made after one more call of this kind for the account with this
\* email; a call with an email that is not in the pool returns at once
callsAfter(calls, accts, email, kind) ==
    LET k == findAccount(accts, email)
    IN  IF k = 0 THEN calls ELSE [calls EXCEPT ![k][kind] = @ + 1]

\* no cooldown has been marked on any of n accounts
noMarks(n) == [i \in 1..n |-> Null]

\* the cooldowns in force after an operation that marked the account with this
\* email (when it did): its reset time after the operation is the mark
marksAfter(marks, accts, email, marked, t) ==
    LET k == findAccount(accts, email)
    IN  IF k = 0 \/ ~marked THEN marks
        ELSE inForce([marks EXCEPT ![k] = accts[k].rateLimitResetTime], t)

\* initialize with a readable config file holding this document
loadConfig(doc) ==
    /\ ~initialized
    /\ LET hydrated == [i \in DOMAIN doc.accounts |-> hydrate(doc.accounts[i], Emails[i], now)]
           n == Len(hydrated)
       IN  /\ accounts' = clearExpiredLimits(updateRecommendations(hydrated), now)
           /\ currentIndex' = IF doc.activeIndex >= n THEN 0 ELSE doc.activeIndex
           /\ settings' = doc.settings
           /\ markedUntil' = noMarks(n)
           /\ outcomeCalls' = noCalls(n)
    /\ initialized' = TRUE
    /\ noResult
    /\ UNCHANGED now
    /\ keepAnchor /\ keepHistory

initializeFromConfig == \E doc \in Docs : loadConfig(doc)

\* initialize without a config file: the default account, or none
initializeFromDatabase ==
    /\ ~initialized
    /\ \E found \in BOOLEAN :
        /\ accounts' = clearExpiredLimits(IF found THEN <<defaultAccount(now)>> ELSE <<>>, now)
        /\ markedUntil' = noMarks(IF found THEN 1 ELSE 0)
        /\ outcomeCalls' = noCalls(IF found THEN 1 ELSE 0)
    /\ initialized' = TRUE
    /\ noResult
    /\ UNCHANGED <<currentIndex, settings, now>>
    /\ keepAnchor /\ keepHistory

\* the clock moves on
Advance ==
    /\ \E t \in Instants :
        /\ t > now
        /\ now' = t
        /\ markedUntil' = inForce(markedUntil, t)
    /\ noResult
    /\ UNCHANGED <<accounts, currentIndex, settings, initialized, outcomeCalls>>
    /\ keepAnchor /\ keepHistory

pickStickyAccount ==
    /\ initialized
    /\ \E out \in {pickStickyOutcome(accounts, currentIndex, lastUsedAccount, lastUsedTime, now)} :
           /\ accounts' = out.accounts
           /\ currentIndex' = out.currentIndex
           /\ lastUsedAccount' = out.lastUsedAccount
           /\ lastUsedTime' = out.lastUsedTime
           /\ ret' = out.ret
           /\ rule' = out.rule
           /\ runAccount' = out.ret.account
           /\ runAt' = IF out.ret.account # NoAccount THEN now ELSE 0
           /\ waitFor' = out.waitAccount
           /\ waitUntil' = IF out.waitAccount # NoAccount THEN now + out.ret.waitMs ELSE 0
    /\ UNCHANGED <<settings, initialized, now, markedUntil, outcomeCalls>>

clearExpired ==
    /\ initialized
    /\ accounts' = clearExpiredLimits(accounts, now)
    /\ noResult
    /\ UNCHANGED <<currentIndex, settings, initialized, now, markedUntil, outcomeCalls>>
    /\ keepAnchor /\ keepHistory

\* resetAllRateLimits: the accounts it leaves (the scores are not recomputed)
resetAllRateLimitsResult(accts) ==
    updateRecommendations(
        [i \in DOMAIN accts |->
            [accts[i] EXCEPT !.isRateLimited = FALSE, !.rateLimitResetTime = Null]])

resetAllRateLimits ==
    /\ initialized
    /\ accounts' = resetAllRateLimitsResult(accounts)
    /\ markedUntil' = noMarks(Len(accounts))
    /\ UNCHANGED outcomeCalls
    /\ noResult
    /\ UNCHANGED <<currentIndex, settings, initialized, now>>
    /\ keepAnchor /\ keepHistory

RECURSIVE countedRequests(_)
countedRequests(accts) ==
    IF accts = <<>> THEN 0
    ELSE Head(accts).stats.successCount + Head(accts).stats.errorCount
         + countedRequests(Tail(accts))

\* the counters of the account with this email can still grow
canCount(accts, email) ==
    findAccount(accts, email) # 0 => countedRequests(accts) < MaxCount

\* emails the callers may pass: those of the pool and one that is not in it
UnknownEmail == "unknown"

CallEmails == {accounts[i].email : i \in DOMAIN accounts} \cup {UnknownEmail}

\* replaces the account at position k and refreshes the recommendations
withAccount(accts, k, acc, t) ==
    updateRecommendations([accts EXCEPT ![k] = rescore(acc, t)])

ResetMsInputs == {0, Tick, 7 * Tick}

markRateLimitedResult(accts, email, resetMs, cooldownSetting, t) ==
    LET k == findAccount(accts, email)
        cooldownMs == IF resetMs # 0 THEN resetMs
                      ELSE IF cooldownSetting # 0 THEN cooldownSetting
                      ELSE DEFAULT_COOLDOWN_MS
    IN  IF k = 0 THEN accts
        ELSE withAccount(accts, k,
                [accts[k] EXCEPT !.isRateLimited = TRUE,
                                 !.rateLimitResetTime = t + cooldownMs,
                                 !.stats.errorCount = @ + 1], t)

markRateLimited ==
    /\ initialized
    /\ \E email \in CallEmails, resetMs \in ResetMsInputs :
        /\ email = UnknownEmail => resetMs = 0
        /\ canCount(accounts, email)
        /\ accounts' = markRateLimitedResult(accounts, email, resetMs, settings, now)
        /\ markedUntil' = marksAfter(markedUntil, accounts', email, TRUE, now)
        /\ outcomeCalls' = callsAfter(outcomeCalls, accounts, email, "failures")
    /\ noResult
    /\ failureRecorded
    /\ UNCHANGED <<currentIndex, settings, initialized, now>>
    /\ keepAnchor

markInvalidResult(accts, email, t) ==
    LET k == findAccount(accts, email)
    IN  IF k = 0 THEN accts
        ELSE withAccount(accts, k, [accts[k] EXCEPT !.isInvalid = TRUE], t)

markInvalidCall(email) ==
    /\ initialized
    /\ accounts' = markInvalidResult(accounts, email, now)
    /\ noResult
    /\ failureRecorded
    /\ UNCHANGED <<currentIndex, settings, initialized, now, markedUntil, outcomeCalls>>
    /\ keepAnchor

markInvalid == \E email \in CallEmails : markInvalidCall(email)

\* recordSuccess that writes one more than the count the account was loaded
\* with, whatever was recorded since
recordSuccessFromSnapshot(accts, email, t) ==
    LET k == findAccount(accts, email)
    IN  IF k = 0 THEN accts
        ELSE withAccount(accts, k,
                [accts[k] EXCEPT !.stats.successCount = FreshStats.successCount + 1,
                                 !.stats.lastSuccessAt = t,
                                 !.isRateLimited = FALSE,
                                 !.rateLimitResetTime = Null,
                                 !.isInvalid = FALSE], t)

\* recordSuccess that leaves the invalid flag as it is
recordSuccessKeepsInvalid(accts, email, t) ==
    LET k == findAccount(accts, email)
    IN  IF k = 0 THEN accts
        ELSE withAccount(accts, k,
                [accts[k] EXCEPT !.stats.successCount = @ + 1,
                                 !.stats.lastSuccessAt = t,
                                 !.isRateLimited = FALSE,
                                 !.rateLimitResetTime = Null], t)

recordSuccessResult(accts, email, t) ==
    LET k == findAccount(accts, email)
    IN  IF k = 0 THEN accts
        ELSE withAccount(accts, k,
                [accts[k] EXCEPT !.stats.successCount = @ + 1,
                                 !.stats.lastSuccessAt = t,
                                 !.isRateLimited = FALSE,
                                 !.rateLimitResetTime = Null,
                                 !.isInvalid = FALSE], t)

recordSuccessCall(email) ==
    /\ initialized
    /\ canCount(accounts, email)
    /\ accounts' = recordSuccessResult(accounts, email, now)
    /\ noResult
    /\ waitFor' = NoAccount
    /\ waitUntil' = 0
    /\ outcomeCalls' = callsAfter(outcomeCalls, accounts, email, "successes")
    /\ UNCHANGED <<currentIndex, settings, initialized, now, runAccount, runAt, markedUntil>>
    /\ keepAnchor

recordSuccess == \E email \in CallEmails : recordSuccessCall(email)

\* the details argument of recordFailure
FailureDetails ==
    [invalidate : BOOLEAN, hasRateLimitMs : BOOLEAN, rateLimitMs : {0, Tick}]

\* recordFailure that rate-limits the account whatever the details, for the
\* default cooldown when no rateLimitMs is given
recordFailureAlwaysLimits(accts, email, details, t) ==
    LET k == findAccount(accts, email)
        cooldownMs == IF details.hasRateLimitMs THEN details.rateLimitMs ELSE DEFAULT_COOLDOWN_MS
    IN  IF k = 0 THEN accts
        ELSE withAccount(accts, k,
                [accts[k] EXCEPT !.stats.errorCount = @ + 1,
                                 !.isInvalid = @ \/ details.invalidate,
                                 !.isRateLimited = TRUE,
                                 !.rateLimitResetTime = t + cooldownMs], t)

recordFailureResult(accts, email, details, t) ==
    LET k == findAccount(accts, email)
        counted == [accts[k] EXCEPT !.stats.errorCount = @ + 1]
        invalidated == IF details.invalidate
                         THEN [counted EXCEPT !.isInvalid = TRUE]
                         ELSE counted
        limited == IF details.hasRateLimitMs
                     THEN [invalidated EXCEPT !.isRateLimited = TRUE,
                                              !.rateLimitResetTime = t + details.rateLimitMs]
                     ELSE invalidated
    IN  IF k = 0 THEN accts ELSE withAccount(accts, k, limited, t)

recordFailureCall(email, details) ==
    /\ initialized
    /\ canCount(accounts, email)
    /\ accounts' = recordFailureResult(accounts, email, details, now)
    /\ markedUntil' = marksAfter(markedUntil, accounts', email, details.hasRateLimitMs, now)
    /\ outcomeCalls' = callsAfter(outcomeCalls, accounts, email, "failures")
    /\ noResult
    /\ failureRecorded
    /\ UNCHANGED <<currentIndex, settings, initialized, now>>
    /\ keepAnchor

recordFailure ==
    \E email \in CallEmails, details \in FailureDetails :
        /\ ~details.hasRateLimitMs => details.rateLimitMs = 0
        /\ email = UnknownEmail => ~details.hasRateLimitMs /\ ~details.invalidate
        /\ recordFailureCall(email, details)

\* getTokenForAccount on an oauth account whose refresh-token exchange
\* succeeds: the invalid flag is cleared, nothing else of the account changes.
\* The accounts of a document are oauth accounts; the default account is
\* read from the database.  (A failed exchange is markInvalid.)
tokenRefreshedResult(accts, email) ==
    LET k == findAccount(accts, email)
    IN  IF k = 0 THEN accts ELSE [accts EXCEPT ![k].isInvalid = FALSE]

tokenRefreshed ==
    /\ initialized
    /\ \E i \in DOMAIN accounts :
        /\ accounts[i].email # DefaultEmail
        /\ accounts[i].isInvalid
        /\ accounts' = tokenRefreshedResult(accounts, accounts[i].email)
    /\ noResult
    /\ UNCHANGED <<currentIndex, settings, initialized, now, markedUntil, outcomeCalls>>
    /\ keepAnchor /\ keepHistory

\* ------------------------------------------------------------------------
\* The response object (res)
\* ------------------------------------------------------------------------
\* res.status(status).json(body): body is "ok" or the shape of its error field,
\* "typed" for {type, message}, "untyped" for {message}, "string" for a string
resJson(q, status, body, type) ==
    [q EXCEPT !.status = status, !.headersSent = TRUE, !.body = body,
              !.errorType = type, !.ended = q.ended + 1,
              !.lateWrite = q.lateWrite \/ q.ended > 0, !.pc = "done"]

\* res.setHeader('Retry-After', seconds)
resSetRetryAfter(q, seconds) == [q EXCEPT !.retryAfter = seconds]

\* res.flushHeaders() of the event stream
resFlushHeaders(q) == [q EXCEPT !.status = 200, !.headersSent = TRUE]

\* res.write(item)
resWrite(q, item) ==
    [q EXCEPT !.out = Append(q.out, item), !.lateWrite = q.lateWrite \/ q.ended > 0]

\* res.end()
resEnd(q) == [q EXCEPT !.ended = q.ended + 1, !.pc = "done"]

\* the items of the event stream
ChunkEvent(type) == [item |-> "event", name |-> type, data |-> type]

RetryLine(ms) == [item |-> "retry", name |-> "retry", data |-> ms]

ErrorEvent(type) == [item |-> "event", name |-> "error", data |-> type]

\* the operations of the account pool, called on the manager directly
serverIdle == UNCHANGED serverVars

auxIdle == UNCHANGED auxVars

Next ==
    \/ initializeFromConfig /\ serverIdle /\ auxIdle
    \/ initializeFromDatabase /\ serverIdle /\ auxIdle
    \/ Advance /\ serverIdle /\ auxIdle
    \/ pickStickyAccount /\ serverIdle /\ auxIdle
    \/ clearExpired /\ serverIdle /\ auxIdle
    \/ resetAllRateLimits /\ serverIdle /\ auxIdle
    \/ markRateLimited /\ serverIdle /\ auxIdle
    \/ markInvalid /\ serverIdle /\ auxIdle
    \/ recordSuccess /\ serverIdle /\ auxIdle
    \/ recordFailure /\ serverIdle /\ auxIdle
    \/ tokenRefreshed /\ serverIdle /\ auxIdle

Spec == Init /\ [][Next]_vars

\* ------------------------------------------------------------------------
\* The HTTP server (server.js) and the request pipeline
\* ------------------------------------------------------------------------
\* the documents the server is started on: one or two accounts, all available
ServerDocs ==
    {doc \in Docs :
        /\ doc.activeIndex = 0
        /\ doc.settings = 0
        /\ Len(doc.accounts) >= 1
        /\ \A i \in DOMAIN doc.accounts :
              ~doc.accounts[i].isRateLimited /\ ~doc.accounts[i].isInvalid}

setReq(r, q) == reqs' = [reqs EXCEPT ![r] = q]

\* ensureInitialized that starts an attempt whenever the pool is not initialized
ensureInitializedNoLatch(done, promise, tries) ==
    IF done THEN 0 ELSE Len(tries) + 1

\* ensureInitialized: the attempt whose promise the caller awaits, 0 when it
\* returns at once, the next attempt number when the caller starts one
ensureInitializedAwaits(done, promise, tries) ==
    IF done THEN 0
    ELSE IF promise # 0 THEN promise
    ELSE Len(tries) + 1

\* await ensureInitialized() of the request whose record is q
ensureInitialized(r, q) ==
    \E k \in {ensureInitializedAwaits(isInitialized, initPromise, initTries)} :
        /\ k > Len(initTries) => Len(initTries) < MaxInitTries
        /\ setReq(r, [q EXCEPT !.pc = "awaitInit", !.awaits = k])
        /\ IF k > Len(initTries)
             THEN /\ initTries' = Append(initTries, "pending")
                  /\ initPromise' = k
             ELSE UNCHANGED <<initTries, initPromise>>
        /\ UNCHANGED isInitialized

\* a request arrives and its handler runs up to await ensureInitialized();
\* the chat completions handler answers an unknown provider and a streaming
\* body before that
arrive(r, kind) ==
    /\ reqs[r].pc = "new"
    /\ r > 1 => reqs[r - 1].pc # "new"
    /\ IF kind.route = "chat" /\ ~kind.knownProvider
         THEN /\ setReq(r, resJson([reqs[r] EXCEPT !.kind = kind], 404, "string", "none"))
              /\ UNCHANGED <<isInitialized, initPromise, initTries>>
       ELSE IF kind.route = "chat" /\ kind.stream
         THEN /\ setReq(r, resJson([reqs[r] EXCEPT !.kind = kind], 400, "untyped", "none"))
              /\ UNCHANGED <<isInitialized, initPromise, initTries>>
       ELSE ensureInitialized(r, [reqs[r] EXCEPT !.kind = kind])
    /\ UNCHANGED poolVars

\* accountManager.initialize() of the attempt in flight resolves
initSucceeds ==
    /\ \E k \in DOMAIN initTries :
        /\ initTries[k] = "pending"
        /\ initTries' = [initTries EXCEPT ![k] = "ok"]
    /\ isInitialized' = TRUE
    /\ IF initialized THEN UNCHANGED poolVars
       ELSE \/ \E doc \in ServerDocs : loadConfig(doc)
            \/ initializeFromDatabase
    /\ UNCHANGED <<initPromise, reqs>>

\* accountManager.initialize() of the attempt in flight rejects
initFails ==
    /\ ~initialized
    /\ \E k \in DOMAIN initTries :
        /\ initTries[k] = "pending"
        /\ initTries' = [initTries EXCEPT ![k] = "failed"]
    /\ initPromise' = 0
    /\ UNCHANGED <<isInitialized, reqs>>
    /\ UNCHANGED poolVars

\* the promise the request awaits is settled / rejected
initSettled(q) == IF q.awaits = 0 THEN TRUE ELSE initTries[q.awaits] # "pending"

initRejected(q) == IF q.awaits = 0 THEN FALSE ELSE initTries[q.awaits] = "failed"

\* the response of the outer catch of POST /v1/messages
respondClassified(q, parsed) ==
    IF q.headersSent
      THEN resEnd(resWrite(q, ErrorEvent(parsed.errorType)))
      ELSE resJson(IF Truthy(parsed.retryAfterSeconds) /\ parsed.statusCode = 503
                     THEN resSetRetryAfter(q, parsed.retryAfterSeconds)
                     ELSE q,
                   parsed.statusCode, "typed", parsed.errorType)

\* the outer catch of POST /v1/messages, up to its response or to await forceRefresh()
messagesCatch(q, parsed) ==
    IF parsed.errorType = "authentication_error"
      THEN [q EXCEPT !.pc = "refresh", !.cachesCleared = TRUE, !.refreshes = q.refreshes + 1]
      ELSE respondClassified(q, parsed)

\* the catch of the stream branch that ends the response before writing the error event
streamCatchEndsFirst(q, parsed) ==
    resWrite(resEnd(q), ErrorEvent(parsed.errorType))

\* the catch of the stream branch of POST /v1/messages
streamCatch(q, parsed) ==
    resEnd(resWrite(IF Truthy(parsed.retryAfterSeconds)
                      THEN resWrite(q, RetryLine(parsed.retryAfterSeconds * 1000))
                      ELSE q,
                    ErrorEvent(parsed.errorType)))

\* the catch of POST /v1/chat/completions
chatCatch(q) == resJson(q, 500, "untyped", "none")

\* the handler of the request catches the error a step of the pipeline threw
caught(q, step, error, accts, t) ==
    IF q.kind.route = "chat"
      THEN chatCatch([q EXCEPT !.failure = step, !.error = error])
    ELSE IF q.headersSent
      THEN streamCatch([q EXCEPT !.failure = step, !.error = error], parseError(error, accts, t))
    ELSE messagesCatch([q EXCEPT !.failure = step, !.error = error], parseError(error, accts, t))

\* POST /v1/messages from the resolution of ensureInitialized to the call of the provider
messagesHandler(r) ==
    /\ reqs[r].pc = "awaitInit"
    /\ reqs[r].kind.route = "messages"
    /\ initSettled(reqs[r]) /\ ~initRejected(reqs[r])
    /\ IF ~reqs[r].kind.knownProvider
         THEN /\ setReq(r, resJson(reqs[r], 404, "typed", "not_found_error"))
              /\ UNCHANGED poolVars
         ELSE /\ IF isAllRateLimited(accounts) THEN resetAllRateLimits ELSE UNCHANGED poolVars
              /\ \E q \in {[reqs[r] EXCEPT !.allLimitedOnEntry = isAllRateLimited(accounts),
                                          !.resetInvoked = isAllRateLimited(accounts)]} :
                    setReq(r, IF ~q.kind.validBody
                                THEN resJson(q, 400, "typed", "invalid_request_error")
                              ELSE IF q.kind.stream
                                THEN [resFlushHeaders(q) EXCEPT !.pc = "select"]
                              ELSE [q EXCEPT !.pc = "select"])
    /\ UNCHANGED <<isInitialized, initPromise, initTries>>

\* POST /v1/chat/completions from the resolution of ensureInitialized to the call of the provider
chatHandler(r) ==
    /\ reqs[r].pc = "awaitInit"
    /\ reqs[r].kind.route = "chat"
    /\ initSettled(reqs[r]) /\ ~initRejected(reqs[r])
    /\ setReq(r, [reqs[r] EXCEPT !.pc = "select",
                                 !.allLimitedOnEntry = isAllRateLimited(accounts)])
    /\ UNCHANGED <<isInitialized, initPromise, initTries>>
    /\ UNCHANGED poolVars

\* GET /health after ensureInitialized resolved
healthHandler(r) ==
    /\ reqs[r].pc = "awaitInit"
    /\ reqs[r].kind.route = "health"
    /\ initSettled(reqs[r]) /\ ~initRejected(reqs[r])
    /\ setReq(r, resJson(reqs[r], 200, "ok", "none"))
    /\ UNCHANGED <<isInitialized, initPromise, initTries>>
    /\ UNCHANGED poolVars

\* the handlers when ensureInitialized rejects
initRejection(r) ==
    /\ reqs[r].pc = "awaitInit"
    /\ initRejected(reqs[r])
    /\ setReq(r, IF reqs[r].kind.route = "health"
                   THEN resJson([reqs[r] EXCEPT !.failure = "init"], 503, "string", "none")
                   ELSE caught(reqs[r], "init", PlainError, accounts, now))
    /\ UNCHANGED <<isInitialized, initPromise, initTries>>
    /\ UNCHANGED poolVars

\* ---- the provider: steps 5 to 8 of the request pipeline ----

\* the errors thrown when the selection yields neither an account nor a wait
SelectionErrors == {ErrorMessage({"RESOURCE_EXHAUSTED"}, NoMatch), ErrorMessage({"401"}, NoMatch)}

\* step 5: pickStickyAccount returns an account or a wait
select(r) ==
    /\ reqs[r].pc = "select"
    /\ pickStickyAccount
    /\ ~(ret'.account = NoAccount /\ ret'.waitMs = 0)
    /\ setReq(r, IF ret'.account # NoAccount
                   THEN [reqs[r] EXCEPT !.selected = TRUE, !.pc = "dispatch",
                                        !.account = ret'.account]
                   ELSE [reqs[r] EXCEPT !.selected = TRUE, !.pc = "sleep",
                                        !.wakeAt = now + ret'.waitMs])
    /\ UNCHANGED <<isInitialized, initPromise, initTries>>

\* step 5: pickStickyAccount returns neither
selectFails(r, error) ==
    /\ reqs[r].pc = "select"
    /\ pickStickyAccount
    /\ ret'.account = NoAccount /\ ret'.waitMs = 0
    /\ setReq(r, caught([reqs[r] EXCEPT !.selected = TRUE], "selection", error, accounts', now))
    /\ UNCHANGED <<isInitialized, initPromise, initTries>>

\* step 5: the sleep is over
wake(r) ==
    /\ reqs[r].pc = "sleep"
    /\ now >= reqs[r].wakeAt
    /\ setReq(r, [reqs[r] EXCEPT !.pc = "select"])
    /\ UNCHANGED <<isInitialized, initPromise, initTries>>
    /\ UNCHANGED poolVars

\* step 6: getTokenForAccount throws; for an oauth account it has marked the account invalid
tokenFails(r) ==
    /\ reqs[r].pc = "dispatch"
    /\ reqs[r].relayed = <<>>
    /\ IF reqs[r].account = DefaultEmail
         THEN UNCHANGED poolVars
         ELSE markInvalidCall(reqs[r].account)
    /\ setReq(r, caught(reqs[r], "token", PlainError, accounts', now))
    /\ UNCHANGED <<isInitialized, initPromise, initTries>>

\* steps 7 to 9, single-shot: the upstream call succeeds
sendSucceeds(r) ==
    /\ reqs[r].pc = "dispatch"
    /\ ~reqs[r].kind.stream
    /\ recordSuccessCall(reqs[r].account)
    /\ setReq(r, resJson(reqs[r], 200, "ok", "none"))
    /\ UNCHANGED <<isInitialized, initPromise, initTries>>

\* step 7, streaming: the upstream yields a chunk and the handler relays it
chunk(r, type) ==
    /\ reqs[r].pc = "dispatch"
    /\ reqs[r].kind.stream
    /\ Len(reqs[r].relayed) < MaxChunks
    /\ setReq(r, resWrite([reqs[r] EXCEPT !.relayed = Append(@, type)], ChunkEvent(type)))
    /\ UNCHANGED <<isInitialized, initPromise, initTries>>
    /\ UNCHANGED poolVars

\* steps 7 and 8, streaming: the upstream stream ends
streamEnds(r) ==
    /\ reqs[r].pc = "dispatch"
    /\ reqs[r].kind.stream
    /\ recordSuccessCall(reqs[r].account)
    /\ setReq(r, resEnd(reqs[r]))
    /\ UNCHANGED <<isInitialized, initPromise, initTries>>

\* the cooldown hint of a rate-limit class error: the parsed reset window or the default
cooldownHint(error) ==
    IF error.reset # NoMatch /\ retryAfterOf(error, <<>>, 0) > 0
      THEN retryAfterOf(error, <<>>, 0) * 1000
      ELSE DEFAULT_COOLDOWN_MS

isRateLimitError(error) ==
    includes(error, "429") \/ includes(error, "RESOURCE_EXHAUSTED")
    \/ includes(error, "QUOTA_EXHAUSTED")

\* the details the provider passes to recordFailure for this error
failureDetails(error) ==
    IF isRateLimitError(error)
      THEN [invalidate |-> FALSE, hasRateLimitMs |-> TRUE, rateLimitMs |-> cooldownHint(error)]
      ELSE [invalidate |-> FALSE, hasRateLimitMs |-> FALSE, rateLimitMs |-> 0]

\* step 8: the upstream call fails with this error
upstreamFails(r, error) ==
    /\ reqs[r].pc = "dispatch"
    /\ recordFailureCall(reqs[r].account, failureDetails(error))
    /\ setReq(r, caught(reqs[r], "upstream", error, accounts', now))
    /\ UNCHANGED <<isInitialized, initPromise, initTries>>

\* the outer catch of POST /v1/messages after await forceRefresh()
refreshDone(r) ==
    /\ reqs[r].pc = "refresh"
    /\ setReq(r, respondClassified(reqs[r], parseError(reqs[r].error, accounts, now)))
    /\ UNCHANGED <<isInitialized, initPromise, initTries>>
    /\ UNCHANGED poolVars

ServerNext ==
    \/ \E r \in Requests, kind \in RequestKinds : arrive(r, kind) /\ auxIdle
    \/ initSucceeds /\ auxIdle
    \/ initFails /\ auxIdle
    \/ \E r \in Requests : messagesHandler(r) /\ auxIdle
    \/ \E r \in Requests : chatHandler(r) /\ auxIdle
    \/ \E r \in Requests : healthHandler(r) /\ auxIdle
    \/ \E r \in Requests : initRejection(r) /\ auxIdle
    \/ \E r \in Requests : select(r) /\ auxIdle
    \/ \E r \in Requests, error \in SelectionErrors : selectFails(r, error) /\ auxIdle
    \/ \E r \in Requests : wake(r) /\ auxIdle
    \/ \E r \in Requests : tokenFails(r) /\ auxIdle
    \/ \E r \in Requests : sendSucceeds(r) /\ auxIdle
    \/ \E r \in Requests, type \in ChunkTypes : chunk(r, type) /\ auxIdle
    \/ \E r \in Requests : streamEnds(r) /\ auxIdle
    \/ \E r \in Requests, error \in UpstreamErrors : upstreamFails(r, error) /\ auxIdle
    \/ \E r \in Requests : refreshDone(r) /\ auxIdle
    \/ Advance /\ serverIdle /\ auxIdle

SpecServer == Init /\ [][ServerNext]_vars


\* ------------------------------------------------------------------------
\* The functions of the server and of the pool, applied to inputs of their own
\* ------------------------------------------------------------------------
\* the pools parseError may ask for an estimate: no account, one available
\* account, one account rate-limited for another 15 s
ClassifierPools ==
    LET acc == defaultAccount(StartTime)
    IN  {<<>>,
         <<acc>>,
         <<[acc EXCEPT !.isRateLimited = TRUE, !.rateLimitResetTime = StartTime + 15000]>>}

\* parseError(error, accountManager) on a message with the given substrings
\* and text
classify(signals, text, accts) ==
    /\ call' = [fn |-> "parseError", signals |-> signals, text |-> text, accts |-> accts]
    /\ result' = parseError(ErrorMessage(signals, resetMatch(text, 1)), accts, StartTime)
    /\ UNCHANGED <<poolVars, serverVars, fileVars, adminVars, tokenVars>>

\* number of messages of a request body
MaxMessages == 4

\* model || 'claude-3-5-sonnet-20241022'
DEFAULT_MODEL == "claude-3-5-sonnet-20241022"

\* the model background tasks are sent to, imported from the constants
FREE_MODEL_FOR_BACKGROUND == "FREE_MODEL_FOR_BACKGROUND"

\* a text is what matters of it here: whether it holds one of
\* BACKGROUND_TASK_PATTERNS, in lower case or with capitals
Texts == {"other", "pattern", "Pattern"}

toLowerCase(text) == IF text = "Pattern" THEN "pattern" ELSE text

\* the request bodies: model absent (""), the free model or another one;
\* tools absent (Null) or an array of 0..2 tools; thinking absent or set;
\* system absent ("") or a string; 1..MaxMessages messages with string
\* content. freeSupported is isSupportedModel(FREE_MODEL_FOR_BACKGROUND).
TokenSaverRequests ==
    UNION {[model : {"", "claude-opus", FREE_MODEL_FOR_BACKGROUND},
            tools : {Null, 0, 1, 2},
            thinking : BOOLEAN,
            system : {""} \cup Texts,
            messages : [1..n -> Texts],
            freeSupported : BOOLEAN] : n \in 1..MaxMessages}

\* isBackgroundTask(messages, system): the system prompt and the first three
\* messages, in lower case, hold a pattern
isBackgroundTask(messages, system) ==
    LET messagesToCheck == SubSeq(messages, 1, Min(3, Len(messages)))
        allContent == (IF system # "" THEN <<toLowerCase(system)>> ELSE <<>>)
                      \o [i \in DOMAIN messagesToCheck |-> toLowerCase(messagesToCheck[i])]
    IN  \E i \in DOMAIN allContent : allContent[i] = "pattern"

\* canDowngrade without the test of the thinking flag
canDowngradeIgnoringThinking(req) ==
    /\ (req.tools = Null \/ req.tools = 0)
    /\ req.freeSupported

canDowngrade(req) ==
    /\ (req.tools = Null \/ req.tools = 0)
    /\ ~req.thinking
    /\ req.freeSupported

\* the model of the request object built by POST /v1/messages
effectiveModel(req) ==
    IF canDowngrade(req) /\ isBackgroundTask(req.messages, req.system)
      THEN FREE_MODEL_FOR_BACKGROUND
    ELSE IF req.model # "" THEN req.model
    ELSE DEFAULT_MODEL

\* the Token Saver step of POST /v1/messages
tokenSaver(req) ==
    /\ call' = [fn |-> "tokenSaver", req |-> req]
    /\ result' = effectiveModel(req)
    /\ UNCHANGED <<poolVars, serverVars, fileVars, adminVars, tokenVars>>

\* the accounts a score is computed for: every state of the flags, a reset
\* time absent, at StartTime, one tick or twelve ticks later, and counts up
\* to MaxCount
ScoreAccounts ==
    [isRateLimited : BOOLEAN,
     rateLimitResetTime : {Null, StartTime, StartTime + Tick, StartTime + 12 * Tick},
     isInvalid : BOOLEAN,
     stats : [successCount : 0..MaxCount, errorCount : 0..MaxCount, lastSuccessAt : {Null}]]

\* #computeHealthScore(account) at clock reading t
score(acc, t) ==
    /\ call' = [fn |-> "computeHealthScore", acc |-> acc, t |-> t]
    /\ result' = computeHealthScore(acc, t)
    /\ UNCHANGED <<poolVars, serverVars, fileVars, adminVars, tokenVars>>

\* number of accounts of the pools the operations are applied to
MaxPool == 3

\* the pools an operation of the manager is applied to, at clock reading
\* StartTime: accounts that are available, invalid, rate-limited until one
\* tick later or rate-limited with a reset time that has come; without
\* recorded requests, with one success, or with one success and one error,
\* the success recorded one tick or two ticks after time 0
PoolInputs ==
    LET emails == <<"a", "b", "c", "d">>
        base == [isRateLimited |-> FALSE, rateLimitResetTime |-> Null,
                 isInvalid |-> FALSE, stats |-> FreshStats]
        limited == [base EXCEPT !.isRateLimited = TRUE, !.rateLimitResetTime = StartTime + Tick]
        flagged == {base,
                    [base EXCEPT !.isInvalid = TRUE],
                    limited,
                    [limited EXCEPT !.rateLimitResetTime = StartTime]}
        used(acc, e, at) == [acc EXCEPT !.stats = [successCount |-> 1, errorCount |-> e,
                                                    lastSuccessAt |-> at]]
        docAccounts == flagged \cup {used(acc, 0, Tick) : acc \in flagged}
                               \cup {used(acc, 1, at) : acc \in flagged, at \in {Tick, StartTime}}
    IN  UNION {{[i \in 1..n |-> hydrate(doc[i], emails[i], StartTime)] :
                    doc \in [1..n -> docAccounts]} : n \in 0..MaxPool}

\* the calls on a pool: the method, the pool and its currentIndex, and the
\* arguments of the methods that take some (those are applied to the pools
\* of fewer than MaxPool accounts)
PoolCalls(accts) ==
    LET Call(op, idx, email, details, resetMs) ==
            [op |-> op, accts |-> accts, idx |-> idx, email |-> email,
             details |-> details, resetMs |-> resetMs]
        none == [invalidate |-> FALSE, hasRateLimitMs |-> FALSE, rateLimitMs |-> 0]
        emails == IF Len(accts) < MaxPool
                  THEN {accts[i].email : i \in DOMAIN accts} \cup {UnknownEmail}
                  ELSE {}
    IN  {Call(op, idx, NoAccount, none, 0) :
            op \in {"pickNext", "getCurrentStickyAccount"},
            idx \in {i \in 0..(MaxPool - 1) : i = 0 \/ i < Len(accts)}}
        \cup {Call(op, 0, NoAccount, none, 0) : op \in {"clearExpiredLimits", "resetAllRateLimits"}}
        \cup {Call(op, 0, email, none, 0) : op \in {"recordSuccess", "markInvalid"}, email \in emails}
        \cup {Call("markRateLimited", 0, email, none, resetMs) :
                 email \in emails, resetMs \in {0, Tick}}
        \cup {Call("recordFailure", 0, email, details, 0) :
                 email \in emails,
                 details \in {d \in FailureDetails : ~d.hasRateLimitMs => d.rateLimitMs = 0}}

\* whether the method calls this.saveToDisk()
savesToDisk(c, t) ==
    LET found == findAccount(c.accts, c.email) # 0
        cleared == \E i \in DOMAIN c.accts : isExpired(c.accts[i], t)
    IN  CASE c.op \in {"recordSuccess", "recordFailure", "markRateLimited", "markInvalid"}
               -> found
          [] c.op = "clearExpiredLimits" -> cleared
          [] c.op = "resetAllRateLimits" -> FALSE
          [] c.op = "pickNext" -> cleared \/ pickNextStep(c.accts, c.idx, t).account # NoAccount
          [] c.op = "getCurrentStickyAccount"
               -> cleared \/ getCurrentStickyAccount(c.accts, c.idx, t).account # NoAccount

\* the pool the method leaves, the account it returns, and whether it asked
\* for a write of the accounts document
poolResult(c, t) ==
    LET Left(accts, idx, account) ==
            [accounts |-> accts, currentIndex |-> idx, account |-> account,
             saved |-> savesToDisk(c, t)]
        step == IF c.op = "pickNext" THEN pickNextStep(c.accts, c.idx, t)
                ELSE getCurrentStickyAccount(c.accts, c.idx, t)
    IN  CASE c.op \in {"pickNext", "getCurrentStickyAccount"}
               -> Left(step.accounts, step.currentIndex, step.account)
          [] c.op = "clearExpiredLimits" -> Left(clearExpiredLimits(c.accts, t), c.idx, NoAccount)
          [] c.op = "resetAllRateLimits" -> Left(resetAllRateLimitsResult(c.accts), c.idx, NoAccount)
          [] c.op = "recordSuccess" -> Left(recordSuccessResult(c.accts, c.email, t), c.idx, NoAccount)
          [] c.op = "markInvalid" -> Left(markInvalidResult(c.accts, c.email, t), c.idx, NoAccount)
          [] c.op = "markRateLimited"
               -> Left(markRateLimitedResult(c.accts, c.email, c.resetMs, 0, t), c.idx, NoAccount)
          [] c.op = "recordFailure"
               -> Left(recordFailureResult(c.accts, c.email, c.details, t), c.idx, NoAccount)

\* a method of the manager is called on a pool
poolCall(c) ==
    /\ call' = [fn |-> c.op, c |-> c, t |-> StartTime]
    /\ result' = poolResult(c, StartTime)
    /\ UNCHANGED <<poolVars, serverVars, fileVars, adminVars, tokenVars>>

\* one function is applied to one input
FunctionsNext ==
    \/ /\ call = NoCall
       /\ \E signals \in SUBSET Signals, text \in MessageTexts, accts \in ClassifierPools :
             classify(signals, text, accts)
    \/ /\ call = NoCall
       /\ \E req \in TokenSaverRequests : tokenSaver(req)
    \/ /\ call = NoCall
       /\ \E acc \in ScoreAccounts, t \in {StartTime, StartTime + 60 * Tick} : score(acc, t)
    \/ /\ call = NoCall
       /\ \E accts \in PoolInputs : \E c \in PoolCalls(accts) : poolCall(c)

SpecFunctions == Init /\ [][FunctionsNext]_vars


\* ------------------------------------------------------------------------
\* Persistence: the accounts document and the flow log
\* ------------------------------------------------------------------------
\* number of saveToDisk() calls
MaxSaves == 3

\* number of completeFlow() calls
MaxFlows == 3

\* A method of the pool changes it and calls this.saveToDisk() without
\* awaiting it: the call runs up to "await mkdir".
saveToDisk ==
    /\ Len(saves) < MaxSaves
    /\ saves' = Append(saves, [pc |-> "mkdir", config |-> 0])
    /\ UNCHANGED <<disk, persistChain, flowLog>>

\* mkdir resolves: the document is built from the pool as it is now, which
\* holds the changes of all the calls made so far, and writeFile starts
mkdirDone(k) ==
    /\ saves[k].pc = "mkdir"
    /\ saves' = [saves EXCEPT ![k] = [pc |-> "write", config |-> Len(saves)]]
    /\ UNCHANGED <<disk, persistChain, flowLog>>

\* writeFile settles; a rejection is caught and logged
writeDone(k, ok) ==
    /\ saves[k].pc = "write"
    /\ saves' = [saves EXCEPT ![k].pc = IF ok THEN "done" ELSE "failed"]
    /\ disk' = IF ok THEN Append(disk, [save |-> k, config |-> saves[k].config]) ELSE disk
    /\ UNCHANGED <<persistChain, flowLog>>

\* completeFlow(flowId, payload) for a flow of flowMap: a job is chained
completeFlow ==
    /\ Len(persistChain) < MaxFlows
    /\ persistChain' = Append(persistChain, "queued")
    /\ UNCHANGED <<saves, disk, flowLog>>

\* a job counts as settled only when it succeeded
settledDoneOnly(job) == job = "done"

\* the promise of a job has settled: its function returned, with or without
\* a caught error
settled(job) == job \in {"done", "failed"}

\* the callback chained by completeFlow runs once the promise before it has
\* settled, and calls appendFlowRecord
appendStarts(k) ==
    /\ persistChain[k] = "queued"
    /\ IF k = 1 THEN TRUE ELSE settled(persistChain[k - 1])
    /\ persistChain' = [persistChain EXCEPT ![k] = "appending"]
    /\ UNCHANGED <<saves, disk, flowLog>>

\* appendFlowRecord settles; then cleanupOldFlows is called
appendDone(k, ok) ==
    /\ persistChain[k] = "appending"
    /\ persistChain' = [persistChain EXCEPT ![k] = IF ok THEN "cleanup" ELSE "failed"]
    /\ flowLog' = IF ok THEN Append(flowLog, k) ELSE flowLog
    /\ UNCHANGED <<saves, disk>>

\* cleanupOldFlows settles
cleanupDone(k, ok) ==
    /\ persistChain[k] = "cleanup"
    /\ persistChain' = [persistChain EXCEPT ![k] = IF ok THEN "done" ELSE "failed"]
    /\ UNCHANGED <<saves, disk, flowLog>>

persistIdle == UNCHANGED <<poolVars, serverVars, call, result, adminVars, tokenVars>>

PersistNext ==
    \/ saveToDisk /\ persistIdle
    \/ \E k \in DOMAIN saves : mkdirDone(k) /\ persistIdle
    \/ \E k \in DOMAIN saves, ok \in BOOLEAN : writeDone(k, ok) /\ persistIdle
    \/ completeFlow /\ persistIdle
    \/ \E k \in DOMAIN persistChain : appendStarts(k) /\ persistIdle
    \/ \E k \in DOMAIN persistChain, ok \in BOOLEAN : appendDone(k, ok) /\ persistIdle
    \/ \E k \in DOMAIN persistChain, ok \in BOOLEAN : cleanupDone(k, ok) /\ persistIdle

SpecPersist == Init /\ [][PersistNext]_vars


\* ------------------------------------------------------------------------
\* The administrative routes
\* ------------------------------------------------------------------------
\* number of backups kept: MAX_BACKUPS of the backup service, scaled down
MaxBackups == 2

\* what a request presents: the X-Admin-Key header and the adminKey query
\* parameter, each absent (""), the configured key or another string
AdminRequests == [header : {"", "secret", "wrong"}, query : {"", "secret", "wrong"}]

\* any key that is presented is accepted
hasValidAdminKeyAnyString(req) ==
    LET expected == config.adminApiKey
        provided == IF req.header # "" THEN req.header ELSE req.query
    IN  IF expected = "" THEN TRUE ELSE provided # ""

hasValidAdminKey(req) ==
    LET expected == config.adminApiKey
        provided == IF req.header # "" THEN req.header ELSE req.query
    IN  IF expected = "" THEN TRUE ELSE provided # "" /\ provided = expected

\* sanitizeConfig: the key is removed, its first four characters are kept
sanitizeConfig(cfg) ==
    [allowLanAccess |-> cfg.allowLanAccess, listenHost |-> cfg.listenHost,
     telemetry |-> cfg.telemetry, maxFlowEntries |-> cfg.maxFlowEntries,
     adminApiKey |-> "",
     adminKeyPreview |-> IF cfg.adminApiKey = "secret" THEN "secr***" ELSE ""]

\* requireAdminAuth when the key is not valid: 401 and the handler returns
requireAdminAuthFails(req, route) ==
    /\ adminRes' = Response(req, route, 401, "error", <<>>)
    /\ UNCHANGED <<config, flows, backups>>

\* flowMonitor.startFlow
startFlow ==
    /\ flows < MaxFlows
    /\ flows' = flows + 1
    /\ UNCHANGED <<config, backups, adminRes>>

\* DELETE /api/flows
deleteFlows(req) ==
    IF ~hasValidAdminKey(req) THEN requireAdminAuthFails(req, "DELETE /api/flows")
    ELSE /\ flows' = 0
         /\ adminRes' = Response(req, "DELETE /api/flows", 200, "ok", <<>>)
         /\ UNCHANGED <<config, backups>>

\* GET /api/admin/config
getAdminConfig(req) ==
    /\ adminRes' = Response(req, "GET /api/admin/config", 200, "config", sanitizeConfig(config))
    /\ UNCHANGED <<config, flows, backups>>

\* POST /api/admin/config; a field of the payload is a set: empty when the
\* field is absent or of another type, else the set of its value
postAdminConfig(req, payload) ==
    IF ~hasValidAdminKey(req) THEN requireAdminAuthFails(req, "POST /api/admin/config")
    ELSE LET allowLanAccess == IF payload.allowLanAccess # {}
                                 THEN TRUE \in payload.allowLanAccess
                                 ELSE config.allowLanAccess
             updated ==
                 [config EXCEPT
                    !.allowLanAccess = allowLanAccess,
                    !.listenHost = IF allowLanAccess THEN "0.0.0.0" ELSE "127.0.0.1",
                    !.maxFlowEntries =
                        IF payload.maxFlowEntries # {}
                          THEN Max(50, Min(CHOOSE n \in payload.maxFlowEntries : TRUE, 2000))
                          ELSE @,
                    !.telemetry = IF payload.telemetry # {} THEN TRUE \in payload.telemetry ELSE @]
         IN  /\ config' = updated
             /\ flows' = Min(flows, updated.maxFlowEntries)
             /\ adminRes' = Response(req, "POST /api/admin/config", 200, "config",
                                     sanitizeConfig(updated))
             /\ UNCHANGED backups

\* GET /api/admin/backups
getBackups(req) ==
    IF ~hasValidAdminKey(req) THEN requireAdminAuthFails(req, "GET /api/admin/backups")
    ELSE /\ adminRes' = Response(req, "GET /api/admin/backups", 200, "backups", <<>>)
         /\ UNCHANGED <<config, flows, backups>>

\* POST /api/admin/backup
postBackup(req) ==
    IF ~hasValidAdminKey(req) THEN requireAdminAuthFails(req, "POST /api/admin/backup")
    ELSE /\ backups' = Min(backups + 1, MaxBackups)    \* createBackup, pruneBackups
         /\ adminRes' = Response(req, "POST /api/admin/backup", 200, "ok", <<>>)
         /\ UNCHANGED <<config, flows>>

adminIdle == UNCHANGED <<poolVars, serverVars, call, result, fileVars, tokenVars>>

AdminNext ==
    \/ startFlow /\ adminIdle
    \/ \E req \in AdminRequests : deleteFlows(req) /\ adminIdle
    \/ \E req \in AdminRequests : getAdminConfig(req) /\ adminIdle
    \/ \E req \in AdminRequests,
          payload \in [allowLanAccess : {{}, {TRUE}, {FALSE}},
                       maxFlowEntries : {{}, {10}, {500}},
                       telemetry : {{}, {TRUE}}] :
          postAdminConfig(req, payload) /\ adminIdle
    \/ \E req \in AdminRequests : getBackups(req) /\ adminIdle
    \/ \E req \in AdminRequests : postBackup(req) /\ adminIdle

SpecAdmin == Init /\ [][AdminNext]_vars

\* ------------------------------------------------------------------------
\* The token resolver (getTokenForAccount, clearTokenCache)
\* ------------------------------------------------------------------------
\* number of getTokenForAccount and clearTokenCache calls
MaxTokenCalls == 3

\* the time a cached token is used for
TOKEN_REFRESH_INTERVAL_MS == 300000

\* error.message of a failed refreshAccessToken
ExchangeErrors == {"invalid_grant", "fetch failed"}

\* a call of the resolver as it starts: what it found in the cache, where it
\* stands, the token it returns, the error it throws, the reason it passed to
\* markInvalid, and for clearTokenCache the tokens it removed
TokenCall(op, email, seen, t) ==
    [op |-> op, email |-> email, at |-> t, seen |-> seen, pc |-> "returned",
     token |-> 0, fromCache |-> FALSE, markedWith |-> "",
     error |-> [type |-> "none", email |-> NoAccount, message |-> ""],
     removed |-> {}]

\* the cache test that also uses a token exactly TOKEN_REFRESH_INTERVAL_MS old
cacheHitInclusive(entry, t) ==
    entry # NoEntry /\ t - entry.extractedAt <= TOKEN_REFRESH_INTERVAL_MS

\* cached && (nowMs() - cached.extractedAt) < TOKEN_REFRESH_INTERVAL_MS
cacheHit(entry, t) ==
    entry # NoEntry /\ t - entry.extractedAt < TOKEN_REFRESH_INTERVAL_MS

\* #tokenCache.set(email, {token, extractedAt: nowMs()})
cacheSet(cache, email, token, t) ==
    [cache EXCEPT ![email] = [token |-> token, extractedAt |-> t]]

\* getTokenForAccount up to its first await or its return: the cached token,
\* the start of the refresh-token exchange (the accounts of a document are
\* oauth accounts with a refresh token), or the extraction from the database
\* (the default account), which yields a token or throws
getTokenForAccount(i, extracted) ==
    /\ initialized
    /\ Len(tokenLog) < MaxTokenCalls
    /\ LET email == accounts[i].email
           seen == tokenCache[email]
           k == Len(tokenLog) + 1
           c == TokenCall("get", email, seen, now)
       IN  IF cacheHit(seen, now)
             THEN /\ tokenLog' = Append(tokenLog, [c EXCEPT !.token = seen.token,
                                                            !.fromCache = TRUE])
                  /\ UNCHANGED tokenCache
           ELSE IF email # DefaultEmail
             THEN /\ tokenLog' = Append(tokenLog, [c EXCEPT !.pc = "refresh"])
                  /\ UNCHANGED tokenCache
           ELSE IF extracted
             THEN /\ tokenLog' = Append(tokenLog, [c EXCEPT !.token = k])
                  /\ tokenCache' = cacheSet(tokenCache, email, k, now)
           ELSE /\ tokenLog' = Append(tokenLog,
                                  [c EXCEPT !.pc = "failed", !.error.type = "extraction"])
                /\ UNCHANGED tokenCache
    /\ UNCHANGED poolVars

\* call k continues after await refreshAccessToken: the invalid flag is
\* cleared and, when it was set, saveToDisk is awaited; otherwise the token is
\* cached and returned
refreshSucceeds(k) ==
    /\ tokenLog[k].pc = "refresh"
    /\ LET email == tokenLog[k].email
           wasInvalid == accounts[findAccount(accounts, email)].isInvalid
       IN  /\ accounts' = tokenRefreshedResult(accounts, email)
           /\ tokenLog' = [tokenLog EXCEPT ![k].token = k,
                                           ![k].pc = IF wasInvalid THEN "save" ELSE "returned"]
           /\ tokenCache' = IF wasInvalid THEN tokenCache
                            ELSE cacheSet(tokenCache, email, k, now)
    /\ noResult
    /\ UNCHANGED <<currentIndex, settings, initialized, now, markedUntil, outcomeCalls>>
    /\ keepAnchor /\ keepHistory

\* call k continues after await this.saveToDisk()
savedAfterRefresh(k) ==
    /\ tokenLog[k].pc = "save"
    /\ tokenLog' = [tokenLog EXCEPT ![k].pc = "returned"]
    /\ tokenCache' = cacheSet(tokenCache, tokenLog[k].email, tokenLog[k].token, now)
    /\ UNCHANGED poolVars

\* the catch of the exchange that throws without marking the account
refreshFailsUnmarked(k, message) ==
    /\ tokenLog[k].pc = "refresh"
    /\ tokenLog' = [tokenLog EXCEPT
                      ![k].pc = "failed",
                      ![k].error = [type |-> "AUTH_INVALID", email |-> tokenLog[k].email,
                                    message |-> message]]
    /\ UNCHANGED tokenCache
    /\ UNCHANGED poolVars

\* call k continues in the catch of the exchange: markInvalid, then the throw
refreshFails(k, message) ==
    /\ tokenLog[k].pc = "refresh"
    /\ markInvalidCall(tokenLog[k].email)
    /\ tokenLog' = [tokenLog EXCEPT
                      ![k].pc = "failed",
                      ![k].markedWith = message,
                      ![k].error = [type |-> "AUTH_INVALID", email |-> tokenLog[k].email,
                                    message |-> message]]
    /\ UNCHANGED tokenCache

\* clearTokenCache(email): one entry, or all of them for null
clearTokenCache(email) ==
    /\ initialized
    /\ Len(tokenLog) < MaxTokenCalls
    /\ LET cleared == IF email = NoAccount THEN TokenEmails ELSE {email}
           c == TokenCall("clear", email, NoEntry, now)
       IN  /\ tokenCache' = [e \in TokenEmails |->
                               IF e \in cleared THEN NoEntry ELSE tokenCache[e]]
           /\ tokenLog' = Append(tokenLog,
                             [c EXCEPT !.removed = {tokenCache[e].token : e \in cleared} \ {0}])
    /\ UNCHANGED poolVars

\* time passes between the calls of the resolver: a token cached at
\* StartTime is one tick short of TOKEN_REFRESH_INTERVAL_MS old, then exactly
\* that old
elapse ==
    /\ \E t \in {StartTime + TOKEN_REFRESH_INTERVAL_MS - Tick,
                 StartTime + TOKEN_REFRESH_INTERVAL_MS} :
        /\ t > now
        /\ now' = t
        /\ markedUntil' = inForce(markedUntil, t)
    /\ noResult
    /\ UNCHANGED <<accounts, currentIndex, settings, initialized, outcomeCalls>>
    /\ keepAnchor /\ keepHistory
    /\ UNCHANGED tokenVars

tokenIdle == UNCHANGED <<serverVars, call, result, fileVars, adminVars>>

\* the pool is loaded from a document whose accounts are available or
\* invalid, or from the database
TokenNext ==
    \/ /\ \E doc \in Docs :
             /\ doc.settings = 0 /\ doc.activeIndex = 0
             /\ \A i \in DOMAIN doc.accounts : ~doc.accounts[i].isRateLimited
             /\ loadConfig(doc)
       /\ UNCHANGED tokenVars /\ tokenIdle
    \/ initializeFromDatabase /\ UNCHANGED tokenVars /\ tokenIdle
    \/ elapse /\ tokenIdle
    \/ \E i \in DOMAIN accounts, extracted \in BOOLEAN :
          getTokenForAccount(i, extracted) /\ tokenIdle
    \/ \E k \in DOMAIN tokenLog : refreshSucceeds(k) /\ tokenIdle
    \/ \E k \in DOMAIN tokenLog : savedAfterRefresh(k) /\ tokenIdle
    \/ \E k \in DOMAIN tokenLog, message \in ExchangeErrors : refreshFails(k, message) /\ tokenIdle
    \/ \E email \in {accounts[i].email : i \in DOMAIN accounts} \cup {NoAccount} :
          clearTokenCache(email) /\ tokenIdle

SpecToken == Init /\ [][TokenNext]_vars

\* ------------------------------------------------------------------------
\* Properties of the selection
\* ------------------------------------------------------------------------
\* the account the sticky index designates
hasCurrent == hasAccountAt(accounts, currentIndex)

current == accounts[currentIndex + 1]

\* the account carries a cooldown with a reset time
hasCooldown(acc) == acc.isRateLimited /\ acc.rateLimitResetTime # Null

remaining(acc) == acc.rateLimitResetTime - now

anchorPos == findAccount(accounts, lastUsedAccount)

\* the call is made inside the lock window of an anchor that is in the pool
insideLockWindow ==
    /\ lastUsedAccount # NoAccount
    /\ lastUsedTime # Null
    /\ now - lastUsedTime < TIME_WINDOW_LOCK_MS
    /\ anchorPos # 0

justSelected == rule # "none"

\* the step is a call of pickStickyAccount (every other operation leaves rule = "none")
selects == rule' # "none"

keepsIndexAndAnchor ==
    /\ currentIndex' = currentIndex
    /\ lastUsedAccount' = lastUsedAccount
    /\ lastUsedTime' = lastUsedTime

\* C1: every account pickStickyAccount returns is available when it is
\* returned: neither rate-limited nor invalid.
C1_ReturnsOnlyAvailable ==
    justSelected /\ ret.account # NoAccount =>
        \E i \in DOMAIN accounts :
            accounts[i].email = ret.account /\ isAvailable(accounts[i])

C1_Witness ==
    /\ justSelected
    /\ ret.account # NoAccount
    /\ \E i \in DOMAIN accounts : accounts[i].isRateLimited /\ ~accounts[i].isInvalid

\* C2: a call made less than TIME_WINDOW_LOCK_MS after the anchor was stamped,
\* with the anchor account available, returns the anchor account and leaves
\* currentIndex and the anchor's account as they were, whatever the other
\* accounts' scores.
C2_AffinityLock ==
    [][selects /\ insideLockWindow /\ isAvailable(accounts[anchorPos]) =>
          /\ ret' = [account |-> lastUsedAccount, waitMs |-> 0]
          /\ currentIndex' = currentIndex
          /\ lastUsedAccount' = lastUsedAccount]_vars

C2_Witness ==
    /\ rule = "lock"
    /\ \E i \in DOMAIN accounts :
          /\ isAvailable(accounts[i])
          /\ accounts[i].email # ret.account
          /\ accounts[i].healthScore > accounts[findAccount(accounts, ret.account)].healthScore

\* C3: once a selection has returned an account, every later selection made
\* less than TIME_WINDOW_LOCK_MS after the previous one, with no failure
\* recorded in between, returns that same account.
C3_UnbrokenRunKeepsAccount ==
    [][selects /\ runAccount # NoAccount /\ now - runAt < TIME_WINDOW_LOCK_MS =>
          ret'.account = runAccount]_vars

C3_Witness ==
    /\ rule = "lock"
    /\ now > StartTime
    /\ Len(accounts) = Len(Emails)
    /\ \A i \in DOMAIN accounts :
          /\ isAvailable(accounts[i])
          /\ accounts[i].stats.errorCount = 0

\* the anchor account of the lock window has a short cooldown left
lockedShortCooldown ==
    /\ insideLockWindow
    /\ hasCooldown(accounts[anchorPos])
    /\ remaining(accounts[anchorPos]) > 0
    /\ remaining(accounts[anchorPos]) <= SHORT_WAIT_THRESHOLD_MS

\* C4: inside the lock window, an anchor account rate-limited with a remaining
\* cooldown w, 0 < w <= SHORT_WAIT_THRESHOLD_MS, makes the call return
\* {account: null, waitMs: w}, other accounts being available or not, and
\* leaves currentIndex and the anchor as they were.
C4_LockedShortWait ==
    [][selects /\ lockedShortCooldown =>
          /\ ret' = [account |-> NoAccount, waitMs |-> remaining(accounts[anchorPos])]
          /\ keepsIndexAndAnchor]_vars

C4_Witness ==
    /\ rule = "lockWait"
    /\ ret.waitMs > 0
    /\ getAvailableAccounts(accounts) # {}

\* the current account has a medium cooldown left and another account is available
mediumCooldownWithAlternative ==
    /\ hasCurrent
    /\ hasCooldown(current)
    /\ remaining(current) > SHORT_WAIT_THRESHOLD_MS
    /\ remaining(current) <= MAX_WAIT_BEFORE_ERROR_MS
    /\ getAvailableAccounts(accounts) \ {currentIndex + 1} # {}

\* C5: when the current account has a cooldown w with
\* SHORT_WAIT_THRESHOLD_MS < w <= MAX_WAIT_BEFORE_ERROR_MS and another account
\* is available, the call returns an available account other than the current
\* one, and currentIndex and the anchor designate it afterwards.
C5_MediumCooldownSwitches ==
    [][selects /\ mediumCooldownWithAlternative =>
          /\ ret'.account # NoAccount
          /\ ret'.account # current.email
          /\ ret'.waitMs = 0
          /\ isAvailable(accounts'[findAccount(accounts', ret'.account)])
          /\ hasAccountAt(accounts', currentIndex')
          /\ accounts'[currentIndex' + 1].email = ret'.account
          /\ lastUsedAccount' = ret'.account
          /\ lastUsedTime' = now]_vars

C5_Witness ==
    /\ rule = "switch"
    /\ ret.account # NoAccount
    /\ \E i \in DOMAIN accounts :
          /\ accounts[i].email # ret.account
          /\ hasCooldown(accounts[i])
          /\ remaining(accounts[i]) > SHORT_WAIT_THRESHOLD_MS
          /\ remaining(accounts[i]) <= MAX_WAIT_BEFORE_ERROR_MS

\* the current account is valid and rate-limited with a remaining cooldown
\* the wait branches apply to; noneAvailable says whether no account is available
waitBranch(noneAvailable) ==
    /\ hasCurrent
    /\ ~current.isInvalid
    /\ hasCooldown(current)
    /\ remaining(current) > 0
    /\ \/ remaining(current) <= SHORT_WAIT_THRESHOLD_MS
       \/ remaining(current) <= MAX_WAIT_BEFORE_ERROR_MS /\ noneAvailable

waitsForCurrent ==
    /\ ret' = [account |-> NoAccount, waitMs |-> remaining(current)]
    /\ keepsIndexAndAnchor

\* C6 as stated: with the current account valid and rate-limited for w > 0,
\* the call returns {account: null, waitMs: w} if w <= SHORT_WAIT_THRESHOLD_MS,
\* and also if w <= MAX_WAIT_BEFORE_ERROR_MS and no account is available;
\* currentIndex and the anchor are unchanged.
C6_WaitBranches ==
    [][selects /\ waitBranch(getAvailableAccounts(accounts) = {})
          => waitsForCurrent]_vars

\* C6 amended: the same, where "no account is available" is judged after the
\* expired cooldowns have been cleared, as the call does before it decides.
C6_WaitBranchesAfterSweep ==
    [][selects
          /\ waitBranch(getAvailableAccounts(clearExpiredLimits(accounts, now)) = {})
          => waitsForCurrent]_vars

C6_Witness ==
    /\ rule = "wait"
    /\ ret.waitMs > SHORT_WAIT_THRESHOLD_MS
    /\ Len(accounts) > 1
    /\ hasCurrent
    /\ remaining(current) = ret.waitMs

\* the current account has a cooldown longer than the longest wait
longCooldown ==
    /\ hasCurrent
    /\ hasCooldown(current)
    /\ remaining(current) > MAX_WAIT_BEFORE_ERROR_MS

C8_WaitEndsAfterOneSleep ==
    [][selects /\ waitFor # NoAccount /\ now >= waitUntil =>
          ret'.account = waitFor]_vars

\* C9: once the pool is initialized, every account with isRateLimited = true
\* has a non-null rateLimitResetTime.
C9_LimitedHasResetTime ==
    initialized =>
        \A i \in DOMAIN accounts :
            accounts[i].isRateLimited => accounts[i].rateLimitResetTime # Null

\* C10: when pickStickyAccount returns, no account is still flagged
\* isRateLimited with a rateLimitResetTime at or before the time of the call.
C10_SelectionSweepsExpired ==
    justSelected => \A i \in DOMAIN accounts : ~isExpired(accounts[i], now)

\* ------------------------------------------------------------------------
\* Properties of the account state
\* ------------------------------------------------------------------------
\* the step is an operation on the initialized pool
onPool == initialized /\ DOMAIN accounts' = DOMAIN accounts

\* the step gave the account at position i a new, non-null reset time
setsResetTime(i) ==
    /\ accounts'[i].rateLimitResetTime # Null
    /\ accounts'[i].rateLimitResetTime # accounts[i].rateLimitResetTime

\* C11: whenever an operation sets an account's rateLimitResetTime to a
\* non-null value, the stored value is strictly greater than the time at
\* which it is set.
C11_ResetTimeInFuture ==
    [][onPool =>
          \A i \in DOMAIN accounts :
              setsResetTime(i) => accounts'[i].rateLimitResetTime > now']_vars

\* the step changed the flags, the reset time or the stats of the account at i
changesState(i) ==
    \/ accounts'[i].isInvalid # accounts[i].isInvalid
    \/ accounts'[i].isRateLimited # accounts[i].isRateLimited
    \/ accounts'[i].rateLimitResetTime # accounts[i].rateLimitResetTime
    \/ accounts'[i].stats # accounts[i].stats

\* C12: immediately after any pool operation that changes an account's
\* isInvalid, isRateLimited, rateLimitResetTime or stats, the account's
\* stored healthScore equals the health-score formula applied to its new state.
C12_ScoreFollowsState ==
    [][onPool =>
          \A i \in DOMAIN accounts :
              changesState(i) =>
                  accounts'[i].healthScore = computeHealthScore(accounts'[i], now')]_vars

\* C13: at most one account is recommended, and that account is not invalid,
\* has healthScore > 0 and a healthScore strictly greater than that of every
\* other account that is not invalid.
C13_SingleRecommended ==
    \A i \in DOMAIN accounts :
        accounts[i].recommended =>
            /\ ~accounts[i].isInvalid
            /\ accounts[i].healthScore > 0
            /\ \A j \in DOMAIN accounts \ {i} :
                  /\ ~accounts[j].recommended
                  /\ ~accounts[j].isInvalid => accounts[j].healthScore < accounts[i].healthScore

\* C15: once an account has been marked rate-limited with reset time T, no
\* pickStickyAccount call made before T returns that account, whatever
\* selections and outcome recordings come in between, as long as
\* resetAllRateLimits is not invoked.
C15_CooldownHolds ==
    [][selects =>
          \A i \in DOMAIN accounts :
              markedUntil[i] # Null /\ now < markedUntil[i] =>
                  ret'.account # accounts[i].email]_vars

\* ------------------------------------------------------------------------
\* Properties of the HTTP server
\* ------------------------------------------------------------------------
\* C14: for every request on POST /v1/messages or POST /v1/chat/completions,
\* if all accounts are rate-limited when the pipeline takes the request, the
\* optimistic reset (resetAllRateLimits) is invoked before any account
\* selection runs for that request.
C14_ResetBeforeSelection ==
    \A r \in Requests :
        reqs[r].selected /\ reqs[r].allLimitedOnEntry => reqs[r].resetInvoked

\* the initialization attempts in flight
pendingTries == {k \in DOMAIN initTries : initTries[k] = "pending"}

\* C16: under any interleaving of requests calling ensureInitialized, at most
\* one accountManager.initialize() is in flight at any time and every caller
\* that has to wait awaits that attempt; initialize is invoked again only
\* after every earlier attempt has failed, never after one has succeeded.
C16_InitLatch ==
    /\ Cardinality(pendingTries) <= 1
    /\ \A k \in DOMAIN initTries : k < Len(initTries) => initTries[k] = "failed"
    /\ \A r \in Requests :
          reqs[r].pc = "awaitInit" =>
              IF reqs[r].awaits = 0 THEN isInitialized
              ELSE /\ reqs[r].awaits \in DOMAIN initTries
                   /\ pendingTries # {} /\ ~initSettled(reqs[r]) =>
                          pendingTries = {reqs[r].awaits}
    /\ pendingTries # {} => initPromise \in pendingTries /\ ~isInitialized

\* two requests wait for the same attempt in flight
C16_Witness ==
    \E r1 \in Requests, r2 \in Requests :
        /\ r1 < r2
        /\ reqs[r1].pc = "awaitInit" /\ reqs[r2].pc = "awaitInit"
        /\ reqs[r1].awaits = reqs[r2].awaits
        /\ reqs[r1].awaits \in pendingTries

\* the request is in the stream branch of POST /v1/messages: the headers of
\* the event stream were flushed, no JSON body was sent
inStreamBranch(q) ==
    q.kind.route = "messages" /\ q.kind.stream /\ q.headersSent /\ q.body = "none"

\* what was written to the stream after the events of the relayed chunks
afterChunks(q) == SubSeq(q.out, Len(q.relayed) + 1, Len(q.out))

isErrorEvent(item) == item.item = "event" /\ item.name = "error"

\* an optional retry: line and then exactly one error event
isErrorTail(tail) ==
    IF Len(tail) = 1 THEN isErrorEvent(tail[1])
    ELSE IF Len(tail) = 2 THEN tail[1].item = "retry" /\ isErrorEvent(tail[2])
    ELSE FALSE

\* C17: for a streaming Messages request the SSE output is the sequence of the
\* upstream chunks in upstream order, one event per chunk named by the chunk's
\* type; if the upstream fails it is followed by an optional retry: line and
\* exactly one error event; the stream is ended exactly once and nothing is
\* written after it is ended.
C17_StreamOutput ==
    \A r \in Requests :
        inStreamBranch(reqs[r]) =>
            /\ Len(reqs[r].out) >= Len(reqs[r].relayed)
            /\ \A i \in DOMAIN reqs[r].relayed :
                  reqs[r].out[i] = ChunkEvent(reqs[r].relayed[i])
            /\ ~reqs[r].lateWrite
            /\ IF reqs[r].pc # "done"
                 THEN reqs[r].ended = 0 /\ afterChunks(reqs[r]) = <<>>
               ELSE IF reqs[r].failure = "none"
                 THEN reqs[r].ended = 1 /\ afterChunks(reqs[r]) = <<>>
               ELSE reqs[r].ended = 1 /\ isErrorTail(afterChunks(reqs[r]))

\* a stream whose upstream failed after its chunks, closed by a retry: line and an error event
C17_Witness ==
    \E r \in Requests :
        /\ inStreamBranch(reqs[r])
        /\ reqs[r].pc = "done"
        /\ reqs[r].failure = "upstream"
        /\ Len(reqs[r].relayed) = MaxChunks
        /\ reqs[r].relayed[1] # reqs[r].relayed[2]
        /\ Len(reqs[r].out) = Len(reqs[r].relayed) + 2

\* C18: a streaming request whose pipeline fails before any upstream chunk was
\* relayed (account selection, token resolution or upstream dispatch) is
\* answered with the classified HTTP status code, not with an SSE error event
\* on a 200 response.
C18_EarlyErrorsUseStatus ==
    \A r \in Requests :
        /\ reqs[r].kind.route = "messages" /\ reqs[r].kind.stream
        /\ reqs[r].pc = "done"
        /\ reqs[r].failure # "none"
        /\ reqs[r].relayed = <<>>
        => /\ reqs[r].status = parseError(reqs[r].error, accounts, now).statusCode
           /\ reqs[r].out = <<>>

\* C19: every error response sent to a client, on every endpoint and dialect,
\* carries an error object with a type of the closed taxonomy and a message:
\* the JSON body of a response with an error status, and the data of an SSE
\* error event.
C19_ErrorsTyped ==
    \A r \in Requests :
        /\ reqs[r].status >= 400 =>
              reqs[r].body = "typed" /\ reqs[r].errorType \in Taxonomy
        /\ \A i \in DOMAIN reqs[r].out :
              isErrorEvent(reqs[r].out[i]) => reqs[r].out[i].data \in Taxonomy

\* C20: every response sent with status 503 by the classified error path
\* carries a Retry-After header, whichever row of the classifier produced the
\* 503 and whatever retry value was parsed.
C20_RetryAfterOn503 ==
    \A r \in Requests :
        reqs[r].status = 503 /\ reqs[r].body = "typed" => reqs[r].retryAfter # Null

\* ------------------------------------------------------------------------
\* Further properties of the account state
\* ------------------------------------------------------------------------
\* C29: after initialize has loaded a document with any integer activeIndex,
\* and after every later pool operation, currentIndex designates an existing
\* account whenever the pool is non-empty: 0 <= currentIndex < number of accounts.
C29_IndexInRange ==
    initialized /\ Len(accounts) > 0 =>
        0 <= currentIndex /\ currentIndex < Len(accounts)

\* ------------------------------------------------------------------------
\* Further properties of the HTTP server
\* ------------------------------------------------------------------------
\* the response of the request reports an authentication_error, as a JSON body
\* or as an SSE error event
endsWithAuthError(q) ==
    /\ q.pc = "done"
    /\ \/ q.errorType = "authentication_error"
       \/ \E i \in DOMAIN q.out :
             isErrorEvent(q.out[i]) /\ q.out[i].data = "authentication_error"

\* C21: whenever a request ends with an authentication_error, streaming or
\* not, the token cache and the project cache were cleared and exactly one
\* forced refresh was attempted before the error response was completed.
C21_AuthErrorRefreshes ==
    \A r \in Requests :
        endsWithAuthError(reqs[r]) => reqs[r].cachesCleared /\ reqs[r].refreshes = 1

\* what the scheduler keeps of the accounts
schedulerState(accts) ==
    [i \in DOMAIN accts |->
        [isRateLimited |-> accts[i].isRateLimited,
         rateLimitResetTime |-> accts[i].rateLimitResetTime,
         isInvalid |-> accts[i].isInvalid,
         stats |-> accts[i].stats]]

\* the step answers request r, whose messages field is not an array, with 400
rejectsInvalidBody(r) ==
    /\ ~reqs'[r].kind.validBody
    /\ reqs[r].status # 400
    /\ reqs'[r].status = 400

\* C22: a POST /v1/messages rejected with 400 because its messages field is
\* missing or not a sequence leaves every account's isRateLimited,
\* rateLimitResetTime, isInvalid and stats, currentIndex and the affinity
\* anchor as they were, in every pool state.
C22_ValidationKeepsState ==
    [][\A r \in Requests :
          rejectsInvalidBody(r) =>
              /\ schedulerState(accounts') = schedulerState(accounts)
              /\ currentIndex' = currentIndex
              /\ lastUsedAccount' = lastUsedAccount
              /\ lastUsedTime' = lastUsedTime]_vars

\* ------------------------------------------------------------------------
\* Properties of the functions
\* ------------------------------------------------------------------------
has(signals, wanted) == signals \cap wanted # {}

\* the row of the classifier table for the substrings a message contains
tableRow(signals) ==
    IF has(signals, {"401", "UNAUTHENTICATED"}) THEN <<"authentication_error", 401>>
    ELSE IF has(signals, {"429", "RESOURCE_EXHAUSTED", "QUOTA_EXHAUSTED"})
      THEN <<"overloaded_error", 503>>
    ELSE IF has(signals, {"invalid_request_error", "INVALID_ARGUMENT"})
      THEN <<"invalid_request_error", 400>>
    ELSE IF has(signals, {"All endpoints failed"}) THEN <<"api_error", 503>>
    ELSE IF has(signals, {"PERMISSION_DENIED"}) THEN <<"permission_error", 403>>
    ELSE <<"api_error", 500>>

classified == call.fn = "parseError"

\* C23: for every message, parseError returns the type and status of the
\* first row of the table, in table order, that matches a substring of the
\* message, and api_error 500 when none does; the type is always one of the
\* five of the taxonomy.
C23_ClassifierTable ==
    classified =>
        /\ result.errorType \in Taxonomy
        /\ <<result.errorType, result.statusCode>> = tableRow(call.signals)

\* a message that holds a rate-limit substring and an authentication one
C23_Witness ==
    /\ classified
    /\ {"429", "401"} \subseteq call.signals
    /\ result.errorType = "authentication_error"

\* the seconds of a window HhMmSs (hours optional) that starts at position j
windowSeconds(text, j) ==
    IF isTok(text, j, "num") /\ isTok(text, j + 1, "h")
       /\ isTok(text, j + 2, "num") /\ isTok(text, j + 3, "m")
       /\ isTok(text, j + 4, "num") /\ isTok(text, j + 5, "s")
      THEN 3600 * text[j].value + 60 * text[j + 2].value + text[j + 4].value
    ELSE IF isTok(text, j, "num") /\ isTok(text, j + 1, "m")
            /\ isTok(text, j + 2, "num") /\ isTok(text, j + 3, "s")
      THEN 60 * text[j].value + text[j + 2].value
    ELSE Null

\* the seconds of the first "reset after HhMmSs" of a text, Null without one
RECURSIVE statedWindow(_, _)
statedWindow(text, i) ==
    IF i > Len(text) THEN Null
    ELSE IF (isTok(text, i, "reset after ") \/ isTok(text, i, "quota will reset after "))
            /\ windowSeconds(text, i + 1) # Null
      THEN windowSeconds(text, i + 1)
    ELSE statedWindow(text, i + 1)

\* the N of the first bare "Ns" of a text, Null without one
RECURSIVE bareSeconds(_, _)
bareSeconds(text, i) ==
    IF i > Len(text) THEN Null
    ELSE IF isTok(text, i, "num") /\ isTok(text, i + 1, "s") THEN text[i].value
    ELSE bareSeconds(text, i + 1)

\* C24: for a rate-limit class error the retry value is 3600*H + 60*M + S when
\* the message states "reset after HhMmSs" (hours optional), N when it only
\* holds a bare "Ns", and otherwise 60, or the pool's estimate of the soonest
\* available account when all accounts are rate-limited.
C24_RetryValue ==
    classified /\ result.errorType = "overloaded_error" =>
        result.retryAfterSeconds =
            IF statedWindow(call.text, 1) # Null THEN statedWindow(call.text, 1)
            ELSE IF bareSeconds(call.text, 1) # Null THEN bareSeconds(call.text, 1)
            ELSE IF isAllRateLimited(call.accts)
              THEN Ceil(getMinWaitTimeMs(call.accts, StartTime), 1000)
            ELSE 60

tokenSaved == call.fn = "tokenSaver"

\* the model the client declared, the default model when it declared none
declaredModel(req) == IF req.model # "" THEN req.model ELSE DEFAULT_MODEL

\* a text of the request holds a pattern, wherever it is
anyPattern(req) ==
    \/ req.system \in {"pattern", "Pattern"}
    \/ \E i \in DOMAIN req.messages : req.messages[i] \in {"pattern", "Pattern"}

\* C25: a request with at least one tool or with the thinking flag is
\* dispatched with the model the client declared, whatever its texts hold;
\* the model is rewritten to FREE_MODEL_FOR_BACKGROUND only for a request
\* without tools and without the thinking flag, when the free model is
\* supported and a background pattern matches.
C25_DowngradeNoOp ==
    tokenSaved =>
        /\ (call.req.tools \in {1, 2} \/ call.req.thinking
                => result = declaredModel(call.req))
        /\ (result # declaredModel(call.req) =>
                /\ result = FREE_MODEL_FOR_BACKGROUND
                /\ call.req.tools \in {Null, 0}
                /\ ~call.req.thinking
                /\ call.req.freeSupported
                /\ anyPattern(call.req))

\* a request with the thinking flag and a pattern, whose model is kept, and
\* the same texts without tools or flag would be rewritten
C25_Witness ==
    /\ tokenSaved
    /\ call.req.thinking
    /\ call.req.tools = Null
    /\ call.req.freeSupported
    /\ call.req.messages[1] = "Pattern"
    /\ call.req.model = "claude-opus"
    /\ result = "claude-opus"
    /\ effectiveModel([call.req EXCEPT !.thinking = FALSE]) = FREE_MODEL_FOR_BACKGROUND

scored == call.fn = "computeHealthScore"

\* C30: the health score computed for an account is an integer between -100
\* and 120, whatever its success and error counts (zero observed requests
\* included), its flags and its cooldown.
C30_ScoreInRange ==
    scored => result \in -100..120

\* an account without observed requests whose cooldown ended ten minutes
\* ago: the upper limit cuts the score
C30_Witness ==
    /\ scored
    /\ call.acc.stats.successCount = 0
    /\ call.acc.stats.errorCount = 0
    /\ call.acc.isRateLimited
    /\ call.acc.rateLimitResetTime = StartTime
    /\ call.t = StartTime + 60 * Tick
    /\ result = 120

\* ------------------------------------------------------------------------
\* Properties of the persistence
\* ------------------------------------------------------------------------
\* C27: the writes of the accounts document are serialized: at most one
\* write is in flight at any time, and the writes are performed in the order
\* in which the changes of the pool were made.
C27_WritesSerialized ==
    /\ Cardinality({k \in DOMAIN saves : saves[k].pc = "write"}) <= 1
    /\ \A i, j \in DOMAIN disk : i < j => disk[i].save < disk[j].save

flowsInOrder == \A i, j \in DOMAIN flowLog : i < j => flowLog[i] < flowLog[j]

\* C28: the appends to the flow log are serialized on one chain: at most one
\* append is in flight, the records are appended in the order of the
\* completeFlow calls, and the job at the head of the queue can run whether
\* the jobs before it succeeded or failed.
C28_AppendsSerialized ==
    /\ Cardinality({k \in DOMAIN persistChain : persistChain[k] \in {"appending", "cleanup"}}) <= 1
    /\ flowsInOrder
    /\ \A k \in DOMAIN persistChain :
          /\ persistChain[k] = "queued"
          /\ \A j \in 1..(k - 1) : persistChain[j] \in {"done", "failed"}
          => ENABLED appendStarts(k)

\* the first append failed, the next two records were appended after it
C28_Witness ==
    /\ Len(persistChain) = 3
    /\ persistChain[1] = "failed"
    /\ flowLog = <<2, 3>>

\* ------------------------------------------------------------------------
\* Properties of the administrative routes
\* ------------------------------------------------------------------------
\* an administrative route handles a request in this step
adminHandled == adminRes' # adminRes

\* the request is answered with 401, without configuration data, and the
\* configuration, the flows and the backups stay as they are
adminRejected ==
    /\ adminRes'.status = 401
    /\ adminRes'.data = <<>>
    /\ UNCHANGED <<config, flows, backups>>

\* C26 as stated: with an admin secret configured, every administrative
\* route (GET and POST /api/admin/config, POST /api/admin/backup, GET
\* /api/admin/backups, DELETE /api/flows) rejects a request whose X-Admin-Key
\* header is not the secret, returning no configuration data and changing no
\* state.
C26_AdminRoutesReject ==
    [][adminHandled /\ config.adminApiKey # "" /\ adminRes'.header # config.adminApiKey
          => adminRejected]_vars

\* the key a request presents: the header, the query parameter without one
presentedKey(res) == IF res.header # "" THEN res.header ELSE res.query

\* C26: with an admin secret configured, POST /api/admin/config, POST
\* /api/admin/backup, GET /api/admin/backups and DELETE /api/flows reject a
\* request that presents the secret neither in the X-Admin-Key header nor,
\* without that header, in the adminKey query parameter: 401, no
\* configuration data, no state change. GET /api/admin/config asks for no
\* key: it changes no state and returns the configuration without the key
\* itself.
C26_WriteRoutesReject ==
    [][adminHandled /\ config.adminApiKey # ""
          /\ presentedKey(adminRes') # config.adminApiKey
          => IF adminRes'.route = "GET /api/admin/config"
               THEN /\ adminRes'.status = 200
                    /\ adminRes'.data = sanitizeConfig(config)
                    /\ adminRes'.data.adminApiKey = ""
                    /\ UNCHANGED <<config, flows, backups>>
               ELSE adminRejected]_vars

\* DELETE /api/flows with a wrong key was rejected while flows are held
C26_Witness ==
    /\ adminRes.route = "DELETE /api/flows"
    /\ adminRes.header = "wrong"
    /\ adminRes.status = 401
    /\ flows > 0
    /\ config.adminApiKey = "secret"

\* ------------------------------------------------------------------------
\* Further properties of the account pool
\* ------------------------------------------------------------------------
\* C31: pickStickyAccount never returns a wait on the affinity-locked account
\* when that account is invalid, also when it is rate-limited with a short
\* remaining cooldown.
C31_NoWaitOnInvalidLocked ==
    rule = "lockWait" => ~accounts[findAccount(accounts, waitFor)].isInvalid

\* ------------------------------------------------------------------------
\* Properties of the methods of the manager, applied to one pool
\* ------------------------------------------------------------------------
called(op) == call.fn = op

\* C32: pickNext returns an available account whose healthScore is maximal
\* among the available accounts and, among those with the maximal score, whose
\* lastSuccessAt is latest (a missing one counts as oldest), and sets
\* currentIndex to its position; when no account is available it returns null
\* and leaves currentIndex unchanged.
C32_PickNextBest ==
    called("pickNext") =>
        LET left == result.accounts
            available == getAvailableAccounts(left)
            p == findAccount(left, result.account)
        IN  IF available = {}
            THEN result.account = NoAccount /\ result.currentIndex = call.c.idx
            ELSE /\ p \in available
                 /\ result.currentIndex = p - 1
                 /\ \A j \in available :
                       /\ left[j].healthScore <= left[p].healthScore
                       /\ left[j].healthScore = left[p].healthScore
                            => lastSuccessKey(left[j]) <= lastSuccessKey(left[p])

\* three available accounts, the first and the last with the best score: the
\* last one, whose success is the later one, is picked
C32_Witness ==
    /\ called("pickNext")
    /\ Len(result.accounts) = 3
    /\ getAvailableAccounts(result.accounts) = {1, 2, 3}
    /\ result.accounts[1].healthScore > result.accounts[2].healthScore
    /\ result.accounts[3].healthScore = result.accounts[1].healthScore
    /\ lastSuccessKey(result.accounts[1]) < lastSuccessKey(result.accounts[3])
    /\ result.currentIndex = 2

mutated ==
    result.accounts # call.c.accts \/ result.currentIndex # call.c.idx

\* C37: every operation of the pool that changes the state of an account or
\* currentIndex (recordSuccess, recordFailure, markRateLimited, markInvalid,
\* clearExpiredLimits when it clears something, resetAllRateLimits, pickNext,
\* the sticky selection) asks for a write of the accounts document.
C37_MutationsSaved ==
    call.fn \in {"recordSuccess", "recordFailure", "markRateLimited", "markInvalid",
                 "clearExpiredLimits", "resetAllRateLimits", "pickNext",
                 "getCurrentStickyAccount"}
        /\ mutated => result.saved

\* C39: whenever the affinity anchor is set, it names the account stored at
\* currentIndex.
C39_AnchorAtCurrentIndex ==
    lastUsedAccount # NoAccount =>
        /\ hasAccountAt(accounts, currentIndex)
        /\ accounts[currentIndex + 1].email = lastUsedAccount

\* the selection moved to the second account and anchored the lock on it,
\* then a failure rate-limited that account
C39_Witness ==
    /\ rule = "none"
    /\ lastUsedAccount = "b"
    /\ currentIndex = 1
    /\ accounts[2].isRateLimited
    /\ accounts[2].stats.errorCount > 0

\* C40: pickStickyAccount never returns both an account and waitMs > 0; every
\* wait it returns satisfies 0 < waitMs <= MAX_WAIT_BEFORE_ERROR_MS and comes
\* with a null account; {account: null, waitMs: 0} is returned only when no
\* account of the pool is available after the expired cooldowns were cleared.
C40_ResultShape ==
    rule # "none" =>
        /\ ~(ret.account # NoAccount /\ ret.waitMs > 0)
        /\ ret.waitMs # 0 =>
              /\ ret.account = NoAccount
              /\ 0 < ret.waitMs
              /\ ret.waitMs <= MAX_WAIT_BEFORE_ERROR_MS
        /\ ret = NoResult => getAvailableAccounts(accounts) = {}

\* a wait longer than SHORT_WAIT_THRESHOLD_MS for the only account that is
\* not invalid
C40_Witness ==
    /\ rule = "wait"
    /\ ret.account = NoAccount
    /\ ret.waitMs > SHORT_WAIT_THRESHOLD_MS
    /\ Len(accounts) = 2

\* the step left the flags, the reset time and the stats of every account
\* other than the k-th as they were
othersKept(k) ==
    /\ Len(accounts') = Len(accounts)
    /\ \A j \in DOMAIN accounts \ {k} :
          /\ accounts'[j].email = accounts[j].email
          /\ accounts'[j].isRateLimited = accounts[j].isRateLimited
          /\ accounts'[j].isInvalid = accounts[j].isInvalid
          /\ accounts'[j].rateLimitResetTime = accounts[j].rateLimitResetTime
          /\ accounts'[j].stats = accounts[j].stats

\* C33: recordSuccess(email) on an existing account adds exactly one to its
\* successCount, leaves its errorCount and makes it available (not
\* rate-limited, no reset time, not invalid); it changes no other account's
\* flags, reset time or stats, nor currentIndex or the affinity anchor.
C33_RecordSuccessFrame ==
    [][\A email \in CallEmails :
          recordSuccessCall(email) /\ findAccount(accounts, email) # 0 =>
              LET k == findAccount(accounts, email)
              IN  /\ accounts'[k].stats.successCount = accounts[k].stats.successCount + 1
                  /\ accounts'[k].stats.errorCount = accounts[k].stats.errorCount
                  /\ ~accounts'[k].isRateLimited
                  /\ accounts'[k].rateLimitResetTime = Null
                  /\ ~accounts'[k].isInvalid
                  /\ othersKept(k)
                  /\ currentIndex' = currentIndex
                  /\ lastUsedAccount' = lastUsedAccount
                  /\ lastUsedTime' = lastUsedTime]_vars

\* a success was recorded for the first account, which had a failure before
\* and is available now, while the second account is still invalid and the
\* anchor is set
C33_Witness ==
    /\ Len(accounts) = 2
    /\ accounts[1].stats.successCount = 1
    /\ accounts[1].stats.errorCount = 1
    /\ accounts[1].stats.lastSuccessAt = now
    /\ isAvailable(accounts[1])
    /\ accounts[2].isInvalid
    /\ lastUsedAccount = "a"
    /\ rule = "none"

\* C38: the outcome counters lose no update: in every state, each account's
\* successCount has grown by the number of recordSuccess calls made for it,
\* and its errorCount by the number of recordFailure and markRateLimited calls
\* made for it (the accounts are loaded without recorded requests).
C38_NoLostUpdate ==
    /\ Len(outcomeCalls) = Len(accounts)
    /\ \A k \in DOMAIN accounts :
          /\ accounts[k].stats.successCount
                = FreshStats.successCount + outcomeCalls[k].successes
          /\ accounts[k].stats.errorCount
                = FreshStats.errorCount + outcomeCalls[k].failures

\* two outcomes were recorded for the same account, a failure and a success,
\* while the other account has none
C38_Witness ==
    /\ Len(accounts) = 2
    /\ outcomeCalls[2] = [successes |-> 1, failures |-> 1]
    /\ outcomeCalls[1] = [successes |-> 0, failures |-> 0]
    /\ accounts[2].stats.successCount = 1
    /\ accounts[2].stats.errorCount = 1

\* ------------------------------------------------------------------------
\* Properties of the token resolver
\* ------------------------------------------------------------------------
\* call k, which awaited the refresh-token exchange, failed in this step
exchangeFailed(k) == tokenLog[k].pc = "refresh" /\ tokenLog'[k].pc = "failed"

\* call k, which awaited the refresh-token exchange, went on in this step
exchangeSucceeded(k) ==
    tokenLog[k].pc = "refresh" /\ tokenLog'[k].pc \in {"save", "returned"}

\* call k of an oauth account returned a token in this step
refreshReturned(k) ==
    tokenLog[k].pc \in {"refresh", "save"} /\ tokenLog'[k].pc = "returned"

\* C35: for an oauth account, when the refresh-token exchange fails, the
\* account is marked invalid with the error message, the call caches no token
\* and fails with an AUTH_INVALID error naming the email; when it succeeds,
\* isInvalid is cleared, and the call caches the new token before it returns.
C35_TokenOutcome ==
    [][\A k \in DOMAIN tokenLog :
          LET email == tokenLog[k].email
              i == findAccount(accounts, email)
              after == tokenLog'[k]
          IN  /\ exchangeFailed(k) =>
                    /\ accounts'[i].isInvalid
                    /\ after.markedWith = after.error.message
                    /\ after.error.message \in ExchangeErrors
                    /\ after.error.type = "AUTH_INVALID"
                    /\ after.error.email = email
                    /\ after.token = 0
                    /\ tokenCache' = tokenCache
              /\ exchangeSucceeded(k) => ~accounts'[i].isInvalid
              /\ refreshReturned(k) =>
                    /\ after.token # 0
                    /\ \A j \in DOMAIN tokenLog : j # k => tokenLog[j].token # after.token
                    /\ tokenCache'[email] = [token |-> after.token, extractedAt |-> now']]_vars

\* one call failed with AUTH_INVALID and left its account invalid and
\* without a cached token; another call, for the other account, returned a
\* token of its own exchange, which is cached, and left that account valid
C35_Witness ==
    \E k, j \in DOMAIN tokenLog :
        /\ tokenLog[k].pc = "failed"
        /\ tokenLog[k].error.type = "AUTH_INVALID"
        /\ accounts[findAccount(accounts, tokenLog[k].email)].isInvalid
        /\ tokenCache[tokenLog[k].email] = NoEntry
        /\ tokenLog[j].pc = "returned"
        /\ ~tokenLog[j].fromCache
        /\ tokenLog[j].op = "get"
        /\ tokenLog[j].email # tokenLog[k].email
        /\ tokenCache[tokenLog[j].email].token = tokenLog[j].token
        /\ ~accounts[findAccount(accounts, tokenLog[j].email)].isInvalid

\* the clearTokenCache calls before call j that covered this email
clearsBefore(j, email) ==
    {k \in 1..(j - 1) : tokenLog[k].op = "clear" /\ tokenLog[k].email \in {NoAccount, email}}

\* C36: getTokenForAccount returns the cached token, without refresh or
\* extraction, when the entry of the account is younger than
\* TOKEN_REFRESH_INTERVAL_MS, and never returns a cached token that is as old
\* as that or older; after clearTokenCache, for the email or for all, a call
\* returns a fresh token: never one that clearTokenCache removed, and from
\* the cache only one that was cached after it.
C36_CacheUse ==
    \A j \in DOMAIN tokenLog :
        LET c == tokenLog[j]
        IN  c.op = "get" =>
              /\ c.fromCache = (/\ c.seen # NoEntry
                                /\ c.at - c.seen.extractedAt < TOKEN_REFRESH_INTERVAL_MS)
              /\ c.fromCache => c.pc = "returned" /\ c.token = c.seen.token
              /\ ~c.fromCache /\ c.pc = "returned" => c.token = j
              /\ \A k \in clearsBefore(j, c.email) :
                    /\ c.token \notin tokenLog[k].removed
                    /\ c.fromCache => c.seen.extractedAt >= tokenLog[k].at

\* the token cached by the first call is returned by the second, one tick
\* before it is TOKEN_REFRESH_INTERVAL_MS old, and not by the third, when it
\* is exactly that old
C36_Witness ==
    /\ Len(tokenLog) = 3
    /\ \A j \in 1..3 : tokenLog[j].op = "get" /\ tokenLog[j].email = tokenLog[1].email
    /\ tokenLog[2].fromCache
    /\ tokenLog[2].token = tokenLog[1].token
    /\ tokenLog[2].at = tokenLog[2].seen.extractedAt + TOKEN_REFRESH_INTERVAL_MS - Tick
    /\ tokenLog[3].seen = tokenLog[2].seen
    /\ tokenLog[3].at = tokenLog[3].seen.extractedAt + TOKEN_REFRESH_INTERVAL_MS
    /\ ~tokenLog[3].fromCache
    /\ tokenLog[3].pc = "returned"
    /\ tokenLog[3].token # tokenLog[1].token

====
